---- MODULE Spec2Model ----
(***************************************************************************)
(* The grid search engine of Demo_search: bfs, dfs, ucs, greedy and astar  *)
(* over a 4-connected grid of empty / wall / weight cells.                 *)
(*                                                                         *)
(* One behaviour is one caller that builds a grid and two points and then  *)
(* calls the five functions one after the other on that same input.  Each  *)
(* function is a call action (its early returns and the initialisation of  *)
(* its locals) and a loop action (one evaluation of the while condition    *)
(* and, if it holds, one whole iteration of the body).  The variables that *)
(* hold the locals are storage: a return leaves in them what the call      *)
(* wrote, and the next call sees fresh locals only because it initialises  *)
(* them itself.                                                            *)
(*                                                                         *)
(* The clock advances by one tick in every action, so a duration measured  *)
(* as t1 - t0 is never 0 and is told apart from a literal 0.               *)
(*                                                                         *)
(* JavaScript arrays are 0-based, TLA+ sequences 1-based: array index i is *)
(* sequence index i+1.  The grid keeps the source's 0-based coordinates.   *)
(***************************************************************************)
EXTENDS Integers, Sequences, FiniteSets, TLC

VARIABLES
    grid,               \* the caller's grid: grid[x][y] is the type of cell (x,y)
    start, goal,        \* the caller's two points
    pending,            \* the functions the caller has still to call (head: current)
    pc,                 \* "call": about to call Head(pending); "loop": inside its
                        \* while loop; "done": every function has returned
    open,               \* the frontier: queue (bfs), stack (dfs), open (ucs, greedy, astar)
    seen,               \* bfs, dfs, greedy: ids ever put in the frontier
    gScore,             \* ucs, astar: id -> best g recorded
    cameFrom,           \* id -> predecessor id
    visitedOrder,       \* points in expansion order
    frontierPeak, visitedPeak,
    frontierSnapshots,  \* one list of ids per expansion
    now,                \* the clock (performance.now()) at the beginning of the next action
    t0,                 \* the clock as read on entry to the function under way
    result,             \* algorithm -> the SearchResult of its latest call
    earlier,            \* algorithm -> the SearchResult of its call before the latest
    \* SearchVisualizer.tsx: the component shows the same grid, start and goal
    algo,               \* the algorithm selected
    running, paused, noPath,
    visited, frontierSet, pathSet,  \* Set<string> of ids, in insertion order
    liveMetrics, history,
    refFrontier,        \* NodeData[]
    refCameFrom, refG, refH, refF,  \* records keyed by id
    refExplored,        \* Set<string> of ids, in insertion order
    refDone, refStartTime, refFrontierPeak, refVisitedPeak,
    timer,              \* whether the interval of the stepping effect is installed
    editMode,           \* what a click on a cell edits
    mouseDown           \* mouseDownRef: a button is held down over the grid

\* The state of the component apart from grid, start and goal
vis == <<algo, running, paused, noPath, visited, frontierSet, pathSet,
         liveMetrics, history, refFrontier, refCameFrom, refG, refH, refF,
         refExplored, refDone, refStartTime, refFrontierPeak, refVisitedPeak,
         timer, editMode, mouseDown>>

\* What the pointer edits
pointer == <<editMode, mouseDown>>

vars == <<grid, start, goal, pending, pc, open, seen, gScore, cameFrom,
          visitedOrder, frontierPeak, visitedPeak, frontierSnapshots, now, t0,
          result, earlier, vis>>

locals == <<open, seen, gScore, cameFrom, visitedOrder, frontierPeak,
            visitedPeak, frontierSnapshots, t0>>

input == <<grid, start, goal>>

---------------------------------------------------------------------------
(* Bounds of the model *)

\* A grid has at most MaxCells cells (rows * columns <= MaxCells).
MaxCells == 5

\* The page is watched on grids of at most MaxUiCells cells, for MaxUiClock events.
MaxUiCells == 3

MaxUiClock == 4

\* One search is watched on grids of at most MaxRunCells cells, for MaxRunClock events.
MaxRunCells == 4

MaxRunClock == 10

---------------------------------------------------------------------------
(* types.ts *)

CellType == {"empty", "wall", "weight"}

Point(x, y) == [x |-> x, y |-> y]

Max(a, b) == IF a > b THEN a ELSE b

Abs(a) == IF a < 0 THEN -a ELSE a

DigitChars == <<"0", "1", "2", "3", "4", "5", "6", "7", "8", "9">>

\* The decimal digits of a natural number, as `${n}` prints them.
RECURSIVE Decimal(_)
Decimal(n) ==
    IF n < 10 THEN <<DigitChars[n + 1]>>
    ELSE Decimal(n \div 10) \o <<DigitChars[(n % 10) + 1]>>

\* idOf(x, y) = `${x},${y}`: a string, here the sequence of its characters.
idOf(x, y) == Decimal(x) \o <<",">> \o Decimal(y)

DigitValue(ch) == (CHOOSE d \in 1..10 : DigitChars[d] = ch) - 1

\* parseInt on a string of decimal digits.
RECURSIVE parseInt(_)
parseInt(s) ==
    IF Len(s) = 0 THEN 0
    ELSE 10 * parseInt(SubSeq(s, 1, Len(s) - 1)) + DigitValue(s[Len(s)])

\* s.split(","): the parts of s between commas.
RECURSIVE split(_)
split(s) ==
    IF \A i \in 1..Len(s) : s[i] # ","
    THEN <<s>>
    ELSE LET k == CHOOSE i \in 1..Len(s) :
                      s[i] = "," /\ \A j \in 1..(i - 1) : s[j] # ","
         IN  <<SubSeq(s, 1, k - 1)>> \o split(SubSeq(s, k + 1, Len(s)))

\* ids.map(s => { [xStr, yStr] = s.split(","); return {x: parseInt(xStr), y: parseInt(yStr)} })
pointOfId(s) == LET parts == split(s) IN Point(parseInt(parts[1]), parseInt(parts[2]))

\* neighbors4 with the right-hand bound off by one: the last column is never entered.
neighbors4ShortRight(x, y, R, C) ==
    (IF x > 0     THEN <<Point(x - 1, y)>> ELSE <<>>) \o
    (IF x < R - 1 THEN <<Point(x + 1, y)>> ELSE <<>>) \o
    (IF y > 0     THEN <<Point(x, y - 1)>> ELSE <<>>) \o
    (IF y < C - 2 THEN <<Point(x, y + 1)>> ELSE <<>>)

\* neighbors4: up, down, left, right, each only if inside the grid.
neighbors4(x, y, R, C) ==
    (IF x > 0     THEN <<Point(x - 1, y)>> ELSE <<>>) \o
    (IF x < R - 1 THEN <<Point(x + 1, y)>> ELSE <<>>) \o
    (IF y > 0     THEN <<Point(x, y - 1)>> ELSE <<>>) \o
    (IF y < C - 1 THEN <<Point(x, y + 1)>> ELSE <<>>)

manhattan(ax, ay, bx, by) == Abs(ax - bx) + Abs(ay - by)

\* Array.prototype.reverse
Reverse(s) == [i \in 1..Len(s) |-> s[Len(s) + 1 - i]]

\* reconstructPath without the final reverse(): the ids from the goal back.
RECURSIVE walkBackOnly(_, _)
walkBackOnly(came, cur) ==
    <<cur>> \o (IF cur \in DOMAIN came THEN walkBackOnly(came, came[cur]) ELSE <<>>)

reconstructPathNoReverse(came, goalId) == walkBackOnly(came, goalId)

\* reconstructPath: follow came from goalId until an id with no entry.
RECURSIVE walkBack(_, _)
walkBack(came, cur) ==
    <<cur>> \o (IF cur \in DOMAIN came THEN walkBack(came, came[cur]) ELSE <<>>)

reconstructPath(came, goalId) == Reverse(walkBack(came, goalId))

---------------------------------------------------------------------------
(* What every function reads first *)

\* grid.length
Rows(g) == Cardinality(DOMAIN g)

\* grid[0]?.length ?? 0
Cols(g) == IF 0 \in DOMAIN g THEN Cardinality(DOMAIN g[0]) ELSE 0

typeAt(p) == grid[p.x][p.y].type

\* A loop that has expanded StepCap cells (two more than the grid has) makes
\* no further step.  The search loops never get there (StepCapNeverBinds
\* below); the cap only keeps a faulty variant of a loop finite.
StepCap == Rows(grid) * Cols(grid) + 2

\* The wall test left out: every neighbour can be entered.
blockedNever(p) == FALSE

\* Weight cells taken for impassable as well.
blockedUnlessEmpty(p) == typeAt(p) # "empty"

\* if (grid[nb.x][nb.y].type === "wall") continue
blocked(p) == typeAt(p) = "wall"

\* The two costs the wrong way round.
stepCostSwapped(p) == IF typeAt(p) = "weight" THEN 1 ELSE 5

\* grid[p.x][p.y].type === "weight" ? 5 : 1
stepCost(p) == IF typeAt(p) = "weight" THEN 5 ELSE 1

idOfPoint(p) == idOf(p.x, p.y)

EmptyMap == [k \in {} |-> 0]

\* performance.now() as read at the end of the action under way
t1 == now + 1

\* The degenerate return with a measured duration in place of the literal 0.
UnfoundMeasured ==
    [found |-> FALSE, path |-> <<>>, visitedOrder |-> <<>>, nodesExpanded |-> 0,
     pathLength |-> 0, totalCost |-> 0, frontierPeak |-> 0, visitedPeak |-> 0,
     timeMs |-> t1 - now, frontierSnapshots |-> <<>>]

\* The record of the R === 0 || C === 0 return: timeMs is the literal 0.
UnfoundEmpty ==
    [found |-> FALSE, path |-> <<>>, visitedOrder |-> <<>>, nodesExpanded |-> 0,
     pathLength |-> 0, totalCost |-> 0, frontierPeak |-> 0, visitedPeak |-> 0,
     timeMs |-> 0, frontierSnapshots |-> <<>>]

\* The record of the wall return, taken in the call action: t0 was read as now.
UnfoundAtWall ==
    [found |-> FALSE, path |-> <<>>, visitedOrder |-> <<>>, nodesExpanded |-> 0,
     pathLength |-> 0, totalCost |-> 0, frontierPeak |-> 0, visitedPeak |-> 0,
     timeMs |-> t1 - now, frontierSnapshots |-> <<>>]

---------------------------------------------------------------------------
(* The caller: a rectangular grid and two points *)

Shapes == {sh \in (0..MaxCells) \X (0..MaxCells) : sh[1] * sh[2] <= MaxCells}

\* Every R x C grid; the cell at grid[x][y] carries its own coordinates.
Grids(R, C) ==
    {[x \in 0..(R - 1) |-> [y \in 0..(C - 1) |-> [x |-> x, y |-> y, type |-> t[x][y]]]] :
        t \in [0..(R - 1) -> [0..(C - 1) -> CellType]]}

\* Start and goal lie inside the grid; a grid without cells is called with any points.
PointsOf(R, C) ==
    IF R = 0 \/ C = 0 THEN {Point(0, 0), Point(1, 0)}
    ELSE {Point(x, y) : x \in 0..(R - 1), y \in 0..(C - 1)}

Algorithms == <<"bfs", "dfs", "ucs", "greedy", "astar">>

\* The caller that calls every function twice in a row on the same input
Twice ==
    <<"bfs", "bfs", "dfs", "dfs", "ucs", "ucs", "greedy", "greedy", "astar", "astar">>

\* The caller that calls bfs, dfs and greedy, turns every weight cell into an
\* empty one, and calls the three again
Reweighed == <<"bfs", "dfs", "greedy", "reweigh", "bfs", "dfs", "greedy">>

\* const initialMetrics: Metrics = {...}
initialMetrics ==
    [nodesExpanded |-> 0, visitedCurrent |-> 0, visitedPeak |-> 0,
     frontierCurrent |-> 0, frontierPeak |-> 0, pathLength |-> 0,
     totalCost |-> 0, timeMs |-> 0, found |-> FALSE]

\* The component as its useState and useRef initial values leave it.  A null
\* refStartTime is 0 here: the only reads test it for truthiness.
Mounted ==
    /\ algo = "A*"
    /\ running = FALSE
    /\ paused = FALSE
    /\ noPath = FALSE
    /\ visited = <<>>
    /\ frontierSet = <<>>
    /\ pathSet = <<>>
    /\ liveMetrics = initialMetrics
    /\ history = <<>>
    /\ refFrontier = <<>>
    /\ refCameFrom = EmptyMap
    /\ refG = EmptyMap
    /\ refH = EmptyMap
    /\ refF = EmptyMap
    /\ refExplored = <<>>
    /\ refDone = FALSE
    /\ refStartTime = 0
    /\ refFrontierPeak = 0
    /\ refVisitedPeak = 0
    /\ timer = FALSE
    /\ editMode = "Walls"
    /\ mouseDown = FALSE

\* Nothing has been called yet: the calls to make, and storage not yet written.
Fresh(calls) ==
    /\ Mounted
    /\ pending = calls
    /\ pc = "call"
    /\ open = <<>>
    /\ seen = {}
    /\ gScore = EmptyMap
    /\ cameFrom = EmptyMap
    /\ visitedOrder = <<>>
    /\ frontierPeak = 0
    /\ visitedPeak = 0
    /\ frontierSnapshots = <<>>
    /\ now = 0
    /\ t0 = 0
    /\ result = EmptyMap
    /\ earlier = EmptyMap

\* The state before the first call of a caller who makes the calls in `calls`
InitWith(calls) ==
    /\ \E sh \in Shapes :
          /\ grid \in Grids(sh[1], sh[2])
          /\ start \in PointsOf(sh[1], sh[2])
          /\ goal \in PointsOf(sh[1], sh[2])
    /\ Fresh(calls)

Init == InitWith(Algorithms)

\* The R x C grid with the given wall and weight cells, every other cell empty
GridOf(R, C, walls, weights) ==
    [x \in 0..(R - 1) |->
        [y \in 0..(C - 1) |->
            [x |-> x, y |-> y,
             type |-> IF <<x, y>> \in walls THEN "wall"
                      ELSE IF <<x, y>> \in weights THEN "weight" ELSE "empty"]]]

\* const R = 5, C = 8; grid[1][3].type = "wall"; bfs(grid, {x:0,y:0}, {x:4,y:7})
QuickUsage ==
    [grid |-> GridOf(5, 8, {<<1, 3>>}, {}), start |-> Point(0, 0), goal |-> Point(4, 7)]

\* The same call with row 2 walled up except for (2,4)
WallRow ==
    [grid |-> GridOf(5, 8, {<<1, 3>>} \cup {<<2, y>> : y \in (0..7) \ {4}}, {}),
     start |-> Point(0, 0), goal |-> Point(4, 7)]

\* A 3 x 3 grid with two weight cells on which astar finds a frontier cell a
\* second time by a cheaper route
TwoRoutes ==
    [grid |-> GridOf(3, 3, {}, {<<1, 1>>, <<2, 2>>}),
     start |-> Point(1, 2), goal |-> Point(2, 1)]

\* A 2 x 4 grid on which greedy reaches a cell through a weight cell first
\* and expands a cheaper way into it afterwards
DearerFirst ==
    [grid |-> GridOf(2, 4, {<<0, 2>>, <<1, 3>>}, {<<1, 1>>}),
     start |-> Point(0, 1), goal |-> Point(0, 3)]

Scenarios == {QuickUsage, WallRow, TwoRoutes, DearerFirst}

\* The caller of the quick usage, on one of the grids above
ScenarioInit ==
    /\ \E sc \in Scenarios :
          /\ grid = sc.grid
          /\ start = sc.start
          /\ goal = sc.goal
    /\ Fresh(Algorithms)

\* Grids of six cells, spelled out with their start and goal

\* A 3 x 2 grid whose two-step way to the goal enters a weight cell (cost 6)
\* while the four-step way around the weight cell costs 4
WeightInTheWay ==
    [grid |-> GridOf(3, 2, {}, {<<1, 1>>}), start |-> Point(0, 1), goal |-> Point(2, 1)]

\* A 3 x 2 grid with a weight cell for a goal, on which astar expands fewer
\* cells than ucs and greedy returns a dearer path than both
WeightForGoal ==
    [grid |-> GridOf(3, 2, {<<0, 0>>}, {<<0, 1>>, <<2, 0>>, <<2, 1>>}),
     start |-> Point(1, 0), goal |-> Point(2, 1)]

\* A 2 x 3 grid with a wall between start and goal: the goal is at Manhattan
\* distance two, and four steps away
AroundTheWall ==
    [grid |-> GridOf(2, 3, {<<1, 1>>}, {}), start |-> Point(1, 0), goal |-> Point(1, 2)]

\* An open 3 x 2 grid with start and goal at the two ends of a column: two
\* steps down the column, four steps by the other column
ColumnEnds ==
    [grid |-> GridOf(3, 2, {}, {}), start |-> Point(0, 0), goal |-> Point(2, 0)]

\* A corridor of six cells with the goal behind a wall and a weight cell next
\* to the start
WalledOff ==
    [grid |-> GridOf(1, 6, {<<0, 4>>}, {<<0, 3>>}), start |-> Point(0, 2), goal |-> Point(0, 5)]

\* A 2 x 3 grid with the start in the middle of an open row and weight cells
\* below, on which the frontier of astar changes in length during the search
WeightsBelow ==
    [grid |-> GridOf(2, 3, {<<1, 0>>}, {<<1, 1>>, <<1, 2>>}),
     start |-> Point(0, 1), goal |-> Point(1, 1)]

\* An open 3 x 2 grid with the goal right of the start: dfs goes down the
\* first column and up the second, and expands the goal last
GoalNextDoor ==
    [grid |-> GridOf(3, 2, {}, {}), start |-> Point(0, 0), goal |-> Point(0, 1)]

\* A 3 x 2 grid on which greedy takes an entry that is not the first of its
\* frontier while a later entry is as close to the goal
TiedFrontier ==
    [grid |-> GridOf(3, 2, {<<0, 0>>}, {<<0, 1>>, <<2, 1>>}),
     start |-> Point(1, 1), goal |-> Point(2, 0)]

\* An open 2 x 3 grid on which dfs runs into a corner with nothing new around
\* it and goes back to a cell pushed together with the corner
BackFromTheCorner ==
    [grid |-> GridOf(2, 3, {}, {}), start |-> Point(0, 1), goal |-> Point(0, 0)]

SixCellGrids ==
    {WeightInTheWay, WeightForGoal, AroundTheWall, ColumnEnds, WalledOff,
     WeightsBelow, GoalNextDoor, TiedFrontier, BackFromTheCorner}

\* The caller of the five functions on one of the grids of six cells
SixCellInit ==
    /\ \E sc \in SixCellGrids :
          /\ grid = sc.grid
          /\ start = sc.start
          /\ goal = sc.goal
    /\ Fresh(Algorithms)

\* next.type = cell.type === "weight" ? "empty" : "weight", on every weight cell
toggleWeights(g) ==
    [x \in DOMAIN g |->
        [y \in DOMAIN g[x] |->
            [g[x][y] EXCEPT !.type = IF @ = "weight" THEN "empty" ELSE @]]]

\* Between two rounds of calls the caller edits the grid.
callerReweigh ==
    /\ pc = "call"
    /\ Head(pending) = "reweigh"
    /\ grid' = toggleWeights(grid)
    /\ pending' = Tail(pending)
    /\ now' = t1
    /\ UNCHANGED vis
    /\ UNCHANGED <<start, goal, pc, locals, result, earlier>>

\* A return that marks the cells of the returned path on the caller's grid.
ReturnMarkingPath(r) ==
    /\ result' = (Head(pending) :> r) @@ result
    /\ earlier' = IF Head(pending) \in DOMAIN result
                  THEN (Head(pending) :> result[Head(pending)]) @@ earlier
                  ELSE earlier
    /\ pending' = Tail(pending)
    /\ pc' = IF Tail(pending) = <<>> THEN "done" ELSE "call"
    /\ grid' = [x \in DOMAIN grid |->
                  [y \in DOMAIN grid[x] |->
                      IF \E i \in 1..Len(r.path) : r.path[i] = Point(x, y)
                      THEN [grid[x][y] EXCEPT !.type = "empty"]
                      ELSE grid[x][y]]]
    /\ UNCHANGED <<start, goal, open, seen, gScore, cameFrom, visitedOrder,
                   frontierPeak, visitedPeak, frontierSnapshots>>

\* A return: the record goes to the caller, who keeps it in place of the one
\* the same function returned before, and goes on to the next function.
Return(r) ==
    /\ result' = (Head(pending) :> r) @@ result
    /\ earlier' = IF Head(pending) \in DOMAIN result
                  THEN (Head(pending) :> result[Head(pending)]) @@ earlier
                  ELSE earlier
    /\ pending' = Tail(pending)
    /\ pc' = IF Tail(pending) = <<>> THEN "done" ELSE "call"
    /\ UNCHANGED <<input, open, seen, gScore, cameFrom, visitedOrder,
                   frontierPeak, visitedPeak, frontierSnapshots>>

\* R === 0 || C === 0
Degenerate == Rows(grid) = 0 \/ Cols(grid) = 0

\* grid[start.x][start.y].type === "wall" || grid[goal.x][goal.y].type === "wall"
StartOrGoalWall == typeAt(start) = "wall" \/ typeAt(goal) = "wall"

\* The sum taken from the first point of the path on (i = 0 for i = 1).
RECURSIVE pathCostWithStart(_, _)
pathCostWithStart(path, i) ==
    IF i - 1 > Len(path) THEN 0
    ELSE stepCost(path[i - 1]) + pathCostWithStart(path, i + 1)

\* let totalCost = 0; for (i = 1; i < path.length; i++) totalCost += weight ? 5 : 1
RECURSIVE pathCost(_, _)
pathCost(path, i) ==
    IF i > Len(path) THEN 0 ELSE stepCost(path[i]) + pathCost(path, i + 1)

\* queue.map(p => idOf(p.x, p.y))
idsOfPoints(q) == [i \in 1..Len(q) |-> idOfPoint(q[i])]

\* The ids written with the coordinates the other way round.
idsOfNodesSwapped(q) == [i \in 1..Len(q) |-> idOf(q[i].p.y, q[i].p.x)]

\* open.map(n => idOf(n.p.x, n.p.y))
idsOfNodes(q) == [i \in 1..Len(q) |-> idOfPoint(q[i].p)]

\* The set kept from one call to the next (a Set at module level).
keptSeen == seen \cup {idOfPoint(start)}

\* const seen = new Set<string>([sId])
newSeen == {idOfPoint(start)}

\* The frontier length stored without the comparison.
bumpFrontierPeakAlways(q, fp) == Len(q)

\* if (queue.length > frontierPeak) frontierPeak = queue.length
bumpFrontierPeak(q, fp) == IF Len(q) > fp THEN Len(q) ELSE fp

\* The peak taken before the push instead of after it.
bumpVisitedPeakBeforePush(vo, vp) == IF Len(vo) - 1 > vp THEN Len(vo) - 1 ELSE vp

\* if (visitedOrder.length > visitedPeak) visitedPeak = visitedOrder.length
bumpVisitedPeak(vo, vp) == IF Len(vo) > vp THEN Len(vo) ELSE vp

\* The record returned when the loop ends with the frontier empty.
Exhausted ==
    [found |-> FALSE, path |-> <<>>, visitedOrder |-> visitedOrder,
     nodesExpanded |-> Len(visitedOrder), pathLength |-> 0, totalCost |-> 0,
     frontierPeak |-> frontierPeak, visitedPeak |-> visitedPeak,
     timeMs |-> t1 - t0, frontierSnapshots |-> frontierSnapshots]

\* The record built without the snapshot taken when the goal is popped.
FoundPostHocNoSnapshot(vo, vp, snaps) ==
    LET ids == reconstructPath(cameFrom, idOfPoint(goal))
        path == [i \in 1..Len(ids) |-> pointOfId(ids[i])]
    IN  [found |-> TRUE, path |-> path, visitedOrder |-> vo,
         nodesExpanded |-> Len(vo), pathLength |-> Max(0, Len(path) - 1),
         totalCost |-> pathCost(path, 2),
         frontierPeak |-> frontierPeak, visitedPeak |-> vp,
         timeMs |-> t1 - t0, frontierSnapshots |-> frontierSnapshots]

\* The record returned when the goal is popped (bfs, dfs, greedy): the cost is
\* summed along the path.
FoundPostHoc(vo, vp, snaps) ==
    LET ids == reconstructPath(cameFrom, idOfPoint(goal))
        path == [i \in 1..Len(ids) |-> pointOfId(ids[i])]
    IN  [found |-> TRUE, path |-> path, visitedOrder |-> vo,
         nodesExpanded |-> Len(vo), pathLength |-> Max(0, Len(path) - 1),
         totalCost |-> pathCost(path, 2),
         frontierPeak |-> frontierPeak, visitedPeak |-> vp,
         timeMs |-> t1 - t0, frontierSnapshots |-> snaps]

\* The last snapshot taken of the frontier as it was before the goal was removed.
FoundByGUnpopped(vo, vp, snaps) ==
    LET gId == idOfPoint(goal)
        ids == reconstructPath(cameFrom, gId)
        path == [i \in 1..Len(ids) |-> pointOfId(ids[i])]
    IN  [found |-> TRUE, path |-> path, visitedOrder |-> vo,
         nodesExpanded |-> Len(vo), pathLength |-> Max(0, Len(path) - 1),
         totalCost |-> IF gId \in DOMAIN gScore THEN gScore[gId] ELSE 0,
         frontierPeak |-> frontierPeak, visitedPeak |-> vp,
         timeMs |-> t1 - t0,
         frontierSnapshots |-> Append(frontierSnapshots, idsOfNodes(open))]

\* The goal's recorded g with the cost of the start cell added to it.
FoundByGWithStart(vo, vp, snaps) ==
    LET gId == idOfPoint(goal)
        ids == reconstructPath(cameFrom, gId)
        path == [i \in 1..Len(ids) |-> pointOfId(ids[i])]
    IN  [found |-> TRUE, path |-> path, visitedOrder |-> vo,
         nodesExpanded |-> Len(vo), pathLength |-> Max(0, Len(path) - 1),
         totalCost |-> (IF gId \in DOMAIN gScore THEN gScore[gId] ELSE 0) + stepCost(start),
         frontierPeak |-> frontierPeak, visitedPeak |-> vp,
         timeMs |-> t1 - t0, frontierSnapshots |-> snaps]

\* The record returned when the goal is popped (ucs, astar): the cost is the
\* goal's recorded g (gScore[gId] ?? 0).
FoundByG(vo, vp, snaps) ==
    LET gId == idOfPoint(goal)
        ids == reconstructPath(cameFrom, gId)
        path == [i \in 1..Len(ids) |-> pointOfId(ids[i])]
    IN  [found |-> TRUE, path |-> path, visitedOrder |-> vo,
         nodesExpanded |-> Len(vo), pathLength |-> Max(0, Len(path) - 1),
         totalCost |-> IF gId \in DOMAIN gScore THEN gScore[gId] ELSE 0,
         frontierPeak |-> frontierPeak, visitedPeak |-> vp,
         timeMs |-> t1 - t0, frontierSnapshots |-> snaps]

---------------------------------------------------------------------------
(* bfs.ts *)

\* The start counted as an expansion, as the loop of the other functions does.
bfsTrivialExpanded ==
    [found |-> TRUE, path |-> <<start>>, visitedOrder |-> <<start>>,
     nodesExpanded |-> 1, pathLength |-> 0, totalCost |-> 0,
     frontierPeak |-> 1, visitedPeak |-> 1,
     timeMs |-> t1 - now, frontierSnapshots |-> <<<<>>>>]

\* The record of the start === goal return
bfsTrivial ==
    [found |-> TRUE, path |-> <<start>>, visitedOrder |-> <<>>,
     nodesExpanded |-> 0, pathLength |-> 0, totalCost |-> 0,
     frontierPeak |-> 1, visitedPeak |-> 0,
     timeMs |-> t1 - now, frontierSnapshots |-> <<>>]

bfsCall ==
    /\ pc = "call"
    /\ Head(pending) = "bfs"
    /\ now' = t1
    /\ UNCHANGED vis
    /\ t0' = now
    /\ IF Degenerate THEN Return(UnfoundEmpty)
       ELSE IF start.x = goal.x /\ start.y = goal.y
       THEN Return(bfsTrivial)
       ELSE IF StartOrGoalWall THEN Return(UnfoundAtWall)
       ELSE /\ open' = <<start>>
            /\ seen' = newSeen
            /\ cameFrom' = EmptyMap
            /\ visitedOrder' = <<>>
            /\ frontierPeak' = 1
            /\ visitedPeak' = 0
            /\ frontierSnapshots' = <<>>
            /\ pc' = "loop"
            /\ UNCHANGED <<input, pending, gScore, result, earlier>>

\* The second entry of the queue taken whenever there is one.
bfsPopSecond(q) == IF Len(q) >= 2 THEN 2 ELSE 1

\* The queue popped at the wrong end (pop() for shift()).
bfsPopLast(q) == Len(q)

\* queue.shift(): the index removed from the queue
bfsPopIdx(q) == 1

bfsNode(nb) == nb

\* for (const nb of neighbors4(...)) { if wall continue; if seen continue; seen.add(nid); cameFrom[nid] = curId; queue.push(nb); ... }
\* st = [seen, cameFrom, open, frontierPeak]
RECURSIVE bfsExpand(_, _, _, _)
bfsExpand(neigh, i, curId, st) ==
    IF i > Len(neigh) THEN st
    ELSE LET nb == neigh[i]
             nid == idOfPoint(nb)
         IN  IF blocked(nb) \/ nid \in st.seen
             THEN bfsExpand(neigh, i + 1, curId, st)
             ELSE LET pushed == Append(st.open, bfsNode(nb))
                  IN  bfsExpand(neigh, i + 1, curId,
                         [seen |-> st.seen \cup {nid},
                          cameFrom |-> (nid :> curId) @@ st.cameFrom,
                          open |-> pushed,
                          frontierPeak |-> bumpFrontierPeak(pushed, st.frontierPeak)])

bfsLoop ==
    /\ pc = "loop"
    /\ Head(pending) = "bfs"
    /\ now' = t1
    /\ UNCHANGED vis
    /\ UNCHANGED t0
    /\ Len(visitedOrder) < StepCap
    /\ IF Len(open) = 0 THEN Return(Exhausted)
       ELSE LET k == bfsPopIdx(open)
                cur == open[k]
                rest == SubSeq(open, 1, k - 1) \o SubSeq(open, k + 1, Len(open))
                curId == idOfPoint(cur)
                vo == Append(visitedOrder, cur)
                vp == bumpVisitedPeak(vo, visitedPeak)
            IN  IF curId = idOfPoint(goal)
                THEN Return(FoundPostHoc(vo, vp, Append(frontierSnapshots, idsOfPoints(rest))))
                ELSE LET st == bfsExpand(neighbors4(cur.x, cur.y, Rows(grid), Cols(grid)),
                                        1, curId,
                                        [seen |-> seen, cameFrom |-> cameFrom,
                                         open |-> rest, frontierPeak |-> frontierPeak])
                     IN  /\ open' = st.open
                         /\ seen' = st.seen
                         /\ cameFrom' = st.cameFrom
                         /\ frontierPeak' = st.frontierPeak
                         /\ visitedOrder' = vo
                         /\ visitedPeak' = vp
                         /\ frontierSnapshots' = Append(frontierSnapshots, idsOfPoints(st.open))
                         /\ UNCHANGED <<input, pending, pc, gScore, result, earlier>>

---------------------------------------------------------------------------
(* dfs.ts *)

dfsCall ==
    /\ pc = "call"
    /\ Head(pending) = "dfs"
    /\ now' = t1
    /\ UNCHANGED vis
    /\ t0' = now
    /\ IF Degenerate THEN Return(UnfoundEmpty)
       ELSE IF StartOrGoalWall THEN Return(UnfoundAtWall)
       ELSE /\ open' = <<start>>
            /\ seen' = newSeen
            /\ cameFrom' = EmptyMap
            /\ visitedOrder' = <<>>
            /\ frontierPeak' = 1
            /\ visitedPeak' = 0
            /\ frontierSnapshots' = <<>>
            /\ pc' = "loop"
            /\ UNCHANGED <<input, pending, gScore, result, earlier>>

\* Only the cells already expanded are skipped: a cell waiting on the stack
\* is pushed again.
dfsSeenIfExpanded(s, nid) ==
    \E i \in 1..Len(visitedOrder) : idOfPoint(visitedOrder[i]) = nid

\* if (seen.has(nid)) continue
dfsSeen(s, nid) == nid \in s

\* stack.pop(): the index removed from the stack
dfsPopIdx(q) == Len(q)

dfsNode(nb) == nb

\* The neighbours pushed in the order neighbors4 gives them, reverse() left out.
dfsNeighForward(cur) == neighbors4(cur.x, cur.y, Rows(grid), Cols(grid))

\* neighbors4(cur.x, cur.y, R, C).reverse()
dfsNeigh(cur) == Reverse(neighbors4(cur.x, cur.y, Rows(grid), Cols(grid)))

\* for (const nb of neigh) { if wall continue; if seen continue; seen.add(nid); cameFrom[nid] = curId; stack.push(nb); ... }
\* st = [seen, cameFrom, open, frontierPeak]
RECURSIVE dfsExpand(_, _, _, _)
dfsExpand(neigh, i, curId, st) ==
    IF i > Len(neigh) THEN st
    ELSE LET nb == neigh[i]
             nid == idOfPoint(nb)
         IN  IF blocked(nb) \/ dfsSeen(st.seen, nid)
             THEN dfsExpand(neigh, i + 1, curId, st)
             ELSE LET pushed == Append(st.open, dfsNode(nb))
                  IN  dfsExpand(neigh, i + 1, curId,
                         [seen |-> st.seen \cup {nid},
                          cameFrom |-> (nid :> curId) @@ st.cameFrom,
                          open |-> pushed,
                          frontierPeak |-> bumpFrontierPeak(pushed, st.frontierPeak)])

dfsLoop ==
    /\ pc = "loop"
    /\ Head(pending) = "dfs"
    /\ now' = t1
    /\ UNCHANGED vis
    /\ UNCHANGED t0
    /\ Len(visitedOrder) < StepCap
    /\ IF Len(open) = 0 THEN Return(Exhausted)
       ELSE LET k == dfsPopIdx(open)
                cur == open[k]
                rest == SubSeq(open, 1, k - 1) \o SubSeq(open, k + 1, Len(open))
                curId == idOfPoint(cur)
                vo == Append(visitedOrder, cur)
                vp == bumpVisitedPeak(vo, visitedPeak)
            IN  IF curId = idOfPoint(goal)
                THEN Return(FoundPostHoc(vo, vp, Append(frontierSnapshots, idsOfPoints(rest))))
                ELSE LET st == dfsExpand(dfsNeigh(cur), 1, curId,
                                        [seen |-> seen, cameFrom |-> cameFrom,
                                         open |-> rest, frontierPeak |-> frontierPeak])
                     IN  /\ open' = st.open
                         /\ seen' = st.seen
                         /\ cameFrom' = st.cameFrom
                         /\ frontierPeak' = st.frontierPeak
                         /\ visitedOrder' = vo
                         /\ visitedPeak' = vp
                         /\ frontierSnapshots' = Append(frontierSnapshots, idsOfPoints(st.open))
                         /\ UNCHANGED <<input, pending, pc, gScore, result, earlier>>

---------------------------------------------------------------------------
(* The linear scans and the relaxation of ucs.ts and astar.ts *)

\* The scan with <= for <: among equal keys the last one wins.
RECURSIVE scanMinLast(_, _, _)
scanMinLast(keys, i, bestIdx) ==
    IF i > Len(keys) THEN bestIdx
    ELSE scanMinLast(keys, i + 1, IF keys[i] <= keys[bestIdx] THEN i ELSE bestIdx)

\* let bestIdx = 0; for (i = 1; i < open.length; i++) if (key(open[i]) < key(open[bestIdx])) bestIdx = i
\* (sequence indices: bestIdx starts at 1, i at 2)
RECURSIVE scanMin(_, _, _)
scanMin(keys, i, bestIdx) ==
    IF i > Len(keys) THEN bestIdx
    ELSE scanMin(keys, i + 1, IF keys[i] < keys[bestIdx] THEN i ELSE bestIdx)

\* open.findIndex(n => n.p.x === nb.x && n.p.y === nb.y): 0 stands for -1
findIndex(q, nb) ==
    IF \E i \in 1..Len(q) : q[i].p.x = nb.x /\ q[i].p.y = nb.y
    THEN CHOOSE i \in 1..Len(q) :
            /\ q[i].p.x = nb.x /\ q[i].p.y = nb.y
            /\ \A j \in 1..(i - 1) : ~(q[j].p.x = nb.x /\ q[j].p.y = nb.y)
    ELSE 0

\* The comparison with the recorded g left out: every free neighbour is relaxed.
improvesAlways(gs, curId, nid, step) == curId \in DOMAIN gs

\* The comparison with <= for <: a route of equal cost replaces the recorded one.
improvesOrEqual(gs, curId, nid, step) ==
    /\ curId \in DOMAIN gs
    /\ (nid \notin DOMAIN gs \/ gs[curId] + step <= gs[nid])

\* tentativeG < (gScore[nid] ?? Infinity), with tentativeG = (gScore[curId] ?? Infinity) + step:
\* an absent gScore[curId] makes tentativeG Infinity, which is below nothing.
improves(gs, curId, nid, step) ==
    /\ curId \in DOMAIN gs
    /\ (nid \notin DOMAIN gs \/ gs[curId] + step < gs[nid])

\* if (idx === -1) open.push(node); else open[idx] = node
putNode(q, idx, node) ==
    IF idx = 0 THEN Append(q, node) ELSE [q EXCEPT ![idx] = node]

---------------------------------------------------------------------------
(* ucs.ts *)

ucsCall ==
    /\ pc = "call"
    /\ Head(pending) = "ucs"
    /\ now' = t1
    /\ UNCHANGED vis
    /\ t0' = now
    /\ IF Degenerate THEN Return(UnfoundEmpty)
       ELSE IF StartOrGoalWall THEN Return(UnfoundAtWall)
       ELSE /\ open' = <<[p |-> start, g |-> 0]>>
            /\ gScore' = (idOfPoint(start) :> 0)
            /\ cameFrom' = EmptyMap
            /\ visitedOrder' = <<>>
            /\ frontierPeak' = 1
            /\ visitedPeak' = 0
            /\ frontierSnapshots' = <<>>
            /\ pc' = "loop"
            /\ UNCHANGED <<input, pending, seen, result, earlier>>

\* No scan: the last frontier entry is taken.
ucsLastIdx(q) == Len(q)

\* No scan: the first frontier entry is taken.
ucsFirstIdx(q) == 1

\* pick min g
ucsBestIdx(q) == scanMin([i \in 1..Len(q) |-> q[i].g], 2, 1)

\* for (const nb of neighbors4(...)) { if wall continue; ...; if (tentativeG < ...) {...} }
\* st = [gScore, cameFrom, open, frontierPeak]
RECURSIVE ucsRelax(_, _, _, _)
ucsRelax(neigh, i, curId, st) ==
    IF i > Len(neigh) THEN st
    ELSE LET nb == neigh[i]
             nid == idOfPoint(nb)
         IN  IF blocked(nb) THEN ucsRelax(neigh, i + 1, curId, st)
             ELSE IF ~improves(st.gScore, curId, nid, stepCost(nb))
             THEN ucsRelax(neigh, i + 1, curId, st)
             ELSE LET tentativeG == st.gScore[curId] + stepCost(nb)
                      q == putNode(st.open, findIndex(st.open, nb),
                                   [p |-> nb, g |-> tentativeG])
                  IN  ucsRelax(neigh, i + 1, curId,
                         [gScore |-> (nid :> tentativeG) @@ st.gScore,
                          cameFrom |-> (nid :> curId) @@ st.cameFrom,
                          open |-> q,
                          frontierPeak |-> bumpFrontierPeak(q, st.frontierPeak)])

ucsLoop ==
    /\ pc = "loop"
    /\ Head(pending) = "ucs"
    /\ now' = t1
    /\ UNCHANGED vis
    /\ UNCHANGED t0
    /\ Len(visitedOrder) < StepCap
    /\ IF Len(open) = 0 THEN Return(Exhausted)
       ELSE LET k == ucsBestIdx(open)
                cur == open[k].p
                rest == SubSeq(open, 1, k - 1) \o SubSeq(open, k + 1, Len(open))
                curId == idOfPoint(cur)
                vo == Append(visitedOrder, cur)
                vp == bumpVisitedPeak(vo, visitedPeak)
            IN  IF curId = idOfPoint(goal)
                THEN Return(FoundByG(vo, vp, Append(frontierSnapshots, idsOfNodes(rest))))
                ELSE LET st == ucsRelax(neighbors4(cur.x, cur.y, Rows(grid), Cols(grid)),
                                        1, curId,
                                        [gScore |-> gScore, cameFrom |-> cameFrom,
                                         open |-> rest, frontierPeak |-> frontierPeak])
                     IN  /\ open' = st.open
                         /\ gScore' = st.gScore
                         /\ cameFrom' = st.cameFrom
                         /\ frontierPeak' = st.frontierPeak
                         /\ visitedOrder' = vo
                         /\ visitedPeak' = vp
                         /\ frontierSnapshots' = Append(frontierSnapshots, idsOfNodes(st.open))
                         /\ UNCHANGED <<input, pending, pc, seen, result, earlier>>

---------------------------------------------------------------------------
(* greedy.ts *)

\* The Manhattan distance counted twice.
hOfDouble(p) == 2 * manhattan(p.x, p.y, goal.x, goal.y)

\* manhattan(p.x, p.y, goal.x, goal.y)
hOf(p) == manhattan(p.x, p.y, goal.x, goal.y)

\* The cost of entering the cell added to the heuristic.
greedyNodeCostly(nb) == [p |-> nb, h |-> hOf(nb) + stepCost(nb)]

\* { p: nb, h: manhattan(nb.x, nb.y, goal.x, goal.y) }
greedyNode(nb) == [p |-> nb, h |-> hOf(nb)]

greedyCall ==
    /\ pc = "call"
    /\ Head(pending) = "greedy"
    /\ now' = t1
    /\ UNCHANGED vis
    /\ t0' = now
    /\ IF Degenerate THEN Return(UnfoundEmpty)
       ELSE IF StartOrGoalWall THEN Return(UnfoundAtWall)
       ELSE /\ open' = <<[p |-> start, h |-> hOf(start)]>>
            /\ seen' = newSeen
            /\ cameFrom' = EmptyMap
            /\ visitedOrder' = <<>>
            /\ frontierPeak' = 1
            /\ visitedPeak' = 0
            /\ frontierSnapshots' = <<>>
            /\ pc' = "loop"
            /\ UNCHANGED <<input, pending, gScore, result, earlier>>

\* A cell is found anew as long as it has not been expanded.
greedySeenIfExpanded(s, nid) ==
    \E i \in 1..Len(visitedOrder) : idOfPoint(visitedOrder[i]) = nid

\* if (seen.has(nid)) continue
greedySeen(s, nid) == nid \in s

\* pick min h
greedyBestIdx(q) == scanMin([i \in 1..Len(q) |-> q[i].h], 2, 1)

\* for (const nb of neighbors4(...)) { if wall continue; if seen continue; seen.add(nid); cameFrom[nid] = curId; open.push({p, h}); ... }
\* st = [seen, cameFrom, open, frontierPeak]
RECURSIVE greedyExpand(_, _, _, _)
greedyExpand(neigh, i, curId, st) ==
    IF i > Len(neigh) THEN st
    ELSE LET nb == neigh[i]
             nid == idOfPoint(nb)
         IN  IF blocked(nb) \/ greedySeen(st.seen, nid)
             THEN greedyExpand(neigh, i + 1, curId, st)
             ELSE LET pushed == Append(st.open, greedyNode(nb))
                  IN  greedyExpand(neigh, i + 1, curId,
                         [seen |-> st.seen \cup {nid},
                          cameFrom |-> (nid :> curId) @@ st.cameFrom,
                          open |-> pushed,
                          frontierPeak |-> bumpFrontierPeak(pushed, st.frontierPeak)])

greedyLoop ==
    /\ pc = "loop"
    /\ Head(pending) = "greedy"
    /\ now' = t1
    /\ UNCHANGED vis
    /\ UNCHANGED t0
    /\ Len(visitedOrder) < StepCap
    /\ IF Len(open) = 0 THEN Return(Exhausted)
       ELSE LET k == greedyBestIdx(open)
                cur == open[k].p
                rest == SubSeq(open, 1, k - 1) \o SubSeq(open, k + 1, Len(open))
                curId == idOfPoint(cur)
                vo == Append(visitedOrder, cur)
                vp == bumpVisitedPeak(vo, visitedPeak)
            IN  IF curId = idOfPoint(goal)
                THEN Return(FoundPostHoc(vo, vp, Append(frontierSnapshots, idsOfNodes(rest))))
                ELSE LET st == greedyExpand(neighbors4(cur.x, cur.y, Rows(grid), Cols(grid)),
                                        1, curId,
                                        [seen |-> seen, cameFrom |-> cameFrom,
                                         open |-> rest, frontierPeak |-> frontierPeak])
                     IN  /\ open' = st.open
                         /\ seen' = st.seen
                         /\ cameFrom' = st.cameFrom
                         /\ frontierPeak' = st.frontierPeak
                         /\ visitedOrder' = vo
                         /\ visitedPeak' = vp
                         /\ frontierSnapshots' = Append(frontierSnapshots, idsOfNodes(st.open))
                         /\ UNCHANGED <<input, pending, pc, gScore, result, earlier>>

---------------------------------------------------------------------------
(* astar.ts *)

astarCall ==
    /\ pc = "call"
    /\ Head(pending) = "astar"
    /\ now' = t1
    /\ UNCHANGED vis
    /\ t0' = now
    /\ IF Degenerate THEN Return(UnfoundEmpty)
       ELSE IF StartOrGoalWall THEN Return(UnfoundAtWall)
       ELSE /\ open' = <<[p |-> start, g |-> 0, h |-> hOf(start), f |-> hOf(start)]>>
            /\ gScore' = (idOfPoint(start) :> 0)
            /\ cameFrom' = EmptyMap
            /\ visitedOrder' = <<>>
            /\ frontierPeak' = 1
            /\ visitedPeak' = 0
            /\ frontierSnapshots' = <<>>
            /\ pc' = "loop"
            /\ UNCHANGED <<input, pending, seen, result, earlier>>

\* pick min f
astarBestIdx(q) == scanMin([i \in 1..Len(q) |-> q[i].f], 2, 1)

\* f takes the heuristic five times over (the weight cost applied to h).
astarNodeHeavyH(nb, tentativeG) ==
    [p |-> nb, g |-> tentativeG, h |-> hOf(nb), f |-> tentativeG + 5 * hOf(nb)]

\* f = g - h: the heuristic with the wrong sign.
astarNodeMinusH(nb, tentativeG) ==
    [p |-> nb, g |-> tentativeG, h |-> hOf(nb), f |-> tentativeG - hOf(nb)]

\* { p: nb, g: tentativeG, h, f } with h = manhattan(nb, goal), f = tentativeG + h
astarNode(nb, tentativeG) ==
    [p |-> nb, g |-> tentativeG, h |-> hOf(nb), f |-> tentativeG + hOf(nb)]

RECURSIVE astarRelax(_, _, _, _)
astarRelax(neigh, i, curId, st) ==
    IF i > Len(neigh) THEN st
    ELSE LET nb == neigh[i]
             nid == idOfPoint(nb)
         IN  IF blocked(nb) THEN astarRelax(neigh, i + 1, curId, st)
             ELSE IF ~improves(st.gScore, curId, nid, stepCost(nb))
             THEN astarRelax(neigh, i + 1, curId, st)
             ELSE LET tentativeG == st.gScore[curId] + stepCost(nb)
                      q == putNode(st.open, findIndex(st.open, nb),
                                   astarNode(nb, tentativeG))
                  IN  astarRelax(neigh, i + 1, curId,
                         [gScore |-> (nid :> tentativeG) @@ st.gScore,
                          cameFrom |-> (nid :> curId) @@ st.cameFrom,
                          open |-> q,
                          frontierPeak |-> bumpFrontierPeak(q, st.frontierPeak)])

astarLoop ==
    /\ pc = "loop"
    /\ Head(pending) = "astar"
    /\ now' = t1
    /\ UNCHANGED vis
    /\ UNCHANGED t0
    /\ Len(visitedOrder) < StepCap
    /\ IF Len(open) = 0 THEN Return(Exhausted)
       ELSE LET k == astarBestIdx(open)
                cur == open[k].p
                rest == SubSeq(open, 1, k - 1) \o SubSeq(open, k + 1, Len(open))
                curId == idOfPoint(cur)
                vo == Append(visitedOrder, cur)
                vp == bumpVisitedPeak(vo, visitedPeak)
            IN  IF curId = idOfPoint(goal)
                THEN Return(FoundByG(vo, vp, Append(frontierSnapshots, idsOfNodes(rest))))
                ELSE LET st == astarRelax(neighbors4(cur.x, cur.y, Rows(grid), Cols(grid)),
                                          1, curId,
                                          [gScore |-> gScore, cameFrom |-> cameFrom,
                                           open |-> rest, frontierPeak |-> frontierPeak])
                     IN  /\ open' = st.open
                         /\ gScore' = st.gScore
                         /\ cameFrom' = st.cameFrom
                         /\ frontierPeak' = st.frontierPeak
                         /\ visitedOrder' = vo
                         /\ visitedPeak' = vp
                         /\ frontierSnapshots' = Append(frontierSnapshots, idsOfNodes(st.open))
                         /\ UNCHANGED <<input, pending, pc, seen, result, earlier>>

---------------------------------------------------------------------------
(* The specifications *)

---------------------------------------------------------------------------
(* SearchVisualizer.tsx: one action per event handler and one for a firing  *)
(* of the stepping interval.  A handler works on the record of what it can  *)
(* write (the refs and the state it sets); what it leaves there is          *)
(* committed when it returns, the setters of one handler being batched.     *)
(* performance.now() read in a handler is the clock at the end of the       *)
(* action.                                                                  *)

\* Set.prototype.has / add / delete on a Set kept in insertion order
SetHas(s, e) == \E i \in 1..Len(s) : s[i] = e

SetAdd(s, e) == IF SetHas(s, e) THEN s ELSE Append(s, e)

SetDelete(s, e) == LET kept(v) == v # e IN SelectSeq(s, kept)

\* What the handlers write
Current ==
    [running |-> running, noPath |-> noPath, visited |-> visited,
     frontierSet |-> frontierSet, pathSet |-> pathSet,
     liveMetrics |-> liveMetrics, history |-> history,
     refFrontier |-> refFrontier, refCameFrom |-> refCameFrom,
     refG |-> refG, refH |-> refH, refF |-> refF,
     refExplored |-> refExplored, refDone |-> refDone,
     refStartTime |-> refStartTime, refFrontierPeak |-> refFrontierPeak,
     refVisitedPeak |-> refVisitedPeak]

Commit(s) ==
    /\ running' = s.running
    /\ noPath' = s.noPath
    /\ visited' = s.visited
    /\ frontierSet' = s.frontierSet
    /\ pathSet' = s.pathSet
    /\ liveMetrics' = s.liveMetrics
    /\ history' = s.history
    /\ refFrontier' = s.refFrontier
    /\ refCameFrom' = s.refCameFrom
    /\ refG' = s.refG
    /\ refH' = s.refH
    /\ refF' = s.refF
    /\ refExplored' = s.refExplored
    /\ refDone' = s.refDone
    /\ refStartTime' = s.refStartTime
    /\ refFrontierPeak' = s.refFrontierPeak
    /\ refVisitedPeak' = s.refVisitedPeak

\* useEffect(..., [running, paused, speedMs, algo]): after a render in which
\* a dependency changed the interval is cleared, and a new one is installed
\* unless the search is not running, is paused or is done.
steppingEffect ==
    timer' = IF <<running', paused', algo'>> # <<running, paused, algo>>
             THEN running' /\ ~paused' /\ ~refDone'
             ELSE timer

resetRunOnly(s) ==
    [s EXCEPT !.visited = <<>>, !.frontierSet = <<>>, !.pathSet = <<>>,
              !.refFrontier = <<>>, !.refCameFrom = EmptyMap,
              !.refG = EmptyMap, !.refH = EmptyMap, !.refF = EmptyMap,
              !.refExplored = <<>>, !.refDone = FALSE, !.noPath = FALSE,
              !.liveMetrics = initialMetrics]

initRun(s) ==
    LET r == resetRunOnly(s)
        sId == idOf(start.x, start.y)
        h0 == manhattan(start.x, start.y, goal.x, goal.y)
        sNode == [id |-> sId, x |-> start.x, y |-> start.y, g |-> 0,
                  h |-> h0, f |-> h0, parent |-> <<>>]
    IN  IF start.x = goal.x /\ start.y = goal.y
        THEN [r EXCEPT !.noPath = FALSE, !.refDone = TRUE, !.running = FALSE]
        ELSE IF typeAt(start) = "wall" \/ typeAt(goal) = "wall"
        THEN [r EXCEPT !.noPath = TRUE, !.refDone = TRUE, !.running = FALSE]
        ELSE [r EXCEPT !.refFrontier = <<sNode>>,
                       !.refG = (sId :> 0) @@ @,
                       !.refH = (sId :> h0) @@ @,
                       !.refF = (sId :> h0) @@ @,
                       !.frontierSet = <<sId>>,
                       !.refStartTime = t1,
                       !.refFrontierPeak = 1,
                       !.refVisitedPeak = 0,
                       !.liveMetrics =
                           [nodesExpanded |-> 0, visitedCurrent |-> 0,
                            visitedPeak |-> 0, frontierCurrent |-> 1,
                            frontierPeak |-> 1, pathLength |-> 0,
                            totalCost |-> 0, timeMs |-> 0, found |-> FALSE]]

\* run() without its first branch: a paused search is begun again.
runAfresh ==
    /\ ~(running /\ ~paused)
    /\ Commit([initRun(Current) EXCEPT !.running = TRUE])
    /\ paused' = FALSE
    /\ now' = t1
    /\ UNCHANGED <<input, pending, pc, locals, result, earlier, algo, pointer>>
    /\ steppingEffect

\* The Run button (disabled while running and not paused)
run ==
    /\ ~(running /\ ~paused)
    /\ IF running /\ paused
       THEN /\ paused' = FALSE
            /\ Commit(Current)
       ELSE /\ Commit([initRun(Current) EXCEPT !.running = TRUE])
            /\ paused' = FALSE
    /\ now' = t1
    /\ UNCHANGED <<input, pending, pc, locals, result, earlier, algo, pointer>>
    /\ steppingEffect

\* The algorithm select (disabled while running)
setAlgo(a) ==
    /\ ~running
    /\ algo' = a
    /\ Commit(Current)
    /\ now' = t1
    /\ UNCHANGED <<input, pending, pc, locals, result, earlier, paused, pointer>>
    /\ steppingEffect

updateLiveMetricsPartial(s) ==
    LET visitedCount == Len(s.refExplored)
        frontierCount == Len(s.refFrontier)
        vp == IF visitedCount > s.refVisitedPeak THEN visitedCount ELSE s.refVisitedPeak
        fp == IF frontierCount > s.refFrontierPeak THEN frontierCount ELSE s.refFrontierPeak
        timeMs == IF s.refStartTime # 0 THEN t1 - s.refStartTime ELSE 0
    IN  [s EXCEPT !.refVisitedPeak = vp,
                  !.refFrontierPeak = fp,
                  !.liveMetrics = [@ EXCEPT !.nodesExpanded = visitedCount,
                                            !.visitedCurrent = visitedCount,
                                            !.visitedPeak = vp,
                                            !.frontierCurrent = frontierCount,
                                            !.frontierPeak = fp,
                                            !.timeMs = timeMs]]

\* argMin: the first index of the least key (index 0, here 1, on an empty array)
RECURSIVE argMinFrom(_, _, _)
argMinFrom(keys, i, idx) ==
    IF i > Len(keys) THEN idx
    ELSE argMinFrom(keys, i + 1, IF keys[i] < keys[idx] THEN i ELSE idx)

argMin(keys) == IF Len(keys) = 0 THEN 1 ELSE argMinFrom(keys, 2, 1)

\* The queue of the BFS mode taken from its end.
visBfsIdxLast(frontier) == Len(frontier)

\* if (algo === "BFS") idx = 0
visBfsIdx(frontier) == 1

\* let idx = 0; if BFS ...; else if DFS ...; else if UCS ...; else if Greedy ...; else if A* ...
visIdx(frontier) ==
    IF algo = "BFS" THEN visBfsIdx(frontier)
    ELSE IF algo = "DFS" THEN Len(frontier)
    ELSE IF algo = "UCS" THEN argMin([i \in 1..Len(frontier) |-> frontier[i].g])
    ELSE IF algo = "Greedy" THEN argMin([i \in 1..Len(frontier) |-> frontier[i].h])
    ELSE IF algo = "A*" THEN argMin([i \in 1..Len(frontier) |-> frontier[i].f])
    ELSE 1

\* neighbors(x, y, R, C): up, down, left, right, each only if inside the grid
neighbors(x, y, R, C) ==
    (IF x > 0     THEN <<Point(x - 1, y)>> ELSE <<>>) \o
    (IF x < R - 1 THEN <<Point(x + 1, y)>> ELSE <<>>) \o
    (IF y > 0     THEN <<Point(x, y - 1)>> ELSE <<>>) \o
    (IF y < C - 1 THEN <<Point(x, y + 1)>> ELSE <<>>)

\* refFrontier.current.findIndex(n => n.id === nid): 0 stands for -1
visFindIndex(q, nid) ==
    IF \E i \in 1..Len(q) : q[i].id = nid
    THEN CHOOSE i \in 1..Len(q) :
            q[i].id = nid /\ \A j \in 1..(i - 1) : q[j].id # nid
    ELSE 0

\* Every cell entered at the cost of an empty one.
visEntryCostFlat(nb) == 1

\* const w = grid[nx][ny].type === "weight" ? 5 : 1
visEntryCost(nb) == IF typeAt(nb) = "weight" THEN 5 ELSE 1

\* for (const [nx, ny] of neigh) { ... }: the body on neigh[i], then the rest
RECURSIVE visExpand(_, _, _, _)
visExpand(neigh, i, current, s) ==
    IF i > Len(neigh) THEN s
    ELSE LET nb == neigh[i]
             nid == idOf(nb.x, nb.y)
             w == visEntryCost(nb)
             tentativeG == current.g + w
             h == manhattan(nb.x, nb.y, goal.x, goal.y)
             node == [id |-> nid, x |-> nb.x, y |-> nb.y, g |-> tentativeG,
                      h |-> h, f |-> tentativeG + h, parent |-> current.id]
             idx == visFindIndex(s.refFrontier, nid)
             tracked(q, fs) ==
                 [s EXCEPT !.refFrontier = q,
                           !.frontierSet = fs,
                           !.refCameFrom = (nid :> current.id) @@ @,
                           !.refG = (nid :> tentativeG) @@ @,
                           !.refH = (nid :> h) @@ @,
                           !.refF = (nid :> node.f) @@ @]
             pushed == tracked(Append(s.refFrontier, node), SetAdd(s.frontierSet, nid))
         IN  IF SetHas(s.refExplored, nid)
             THEN visExpand(neigh, i + 1, current, s)
             ELSE IF algo = "DFS" \/ algo = "BFS"
             THEN visExpand(neigh, i + 1, current, IF idx = 0 THEN pushed ELSE s)
             ELSE IF idx = 0
             THEN visExpand(neigh, i + 1, current, pushed)
             ELSE IF nid \notin DOMAIN s.refG \/ tentativeG < s.refG[nid]
             THEN visExpand(neigh, i + 1, current,
                            tracked([s.refFrontier EXCEPT ![idx] = node], s.frontierSet))
             ELSE visExpand(neigh, i + 1, current, s)

stepOnce(s) ==
    IF s.refDone THEN s
    ELSE IF Len(s.refFrontier) = 0
    THEN [updateLiveMetricsPartial([s EXCEPT !.refDone = TRUE, !.running = FALSE])
             EXCEPT !.noPath = TRUE]
    ELSE LET frontier == s.refFrontier
             idx == visIdx(frontier)
             current == frontier[idx]
             spliced == SubSeq(frontier, 1, idx - 1) \o SubSeq(frontier, idx + 1, Len(frontier))
             booked == [s EXCEPT !.refFrontier = spliced,
                                 !.refExplored = SetAdd(@, current.id),
                                 !.visited = SetAdd(@, current.id),
                                 !.frontierSet = SetDelete(@, current.id)]
         IN  IF current.x = goal.x /\ current.y = goal.y
             THEN \* the peaks and the time are computed here as in
                  \* updateLiveMetricsPartial, and every metric is set
                  LET pathIds == reconstructPath(booked.refCameFrom, current.id)
                      m == updateLiveMetricsPartial(booked)
                      pathLength == Max(0, Len(pathIds) - 1)
                      totalCost == current.g
                      entry == [algo |-> algo,
                                nodesExpanded |-> Len(booked.refExplored),
                                pathLength |-> pathLength,
                                totalCost |-> totalCost,
                                frontierPeak |-> m.refFrontierPeak,
                                timeMs |-> m.liveMetrics.timeMs]
                      all == <<entry>> \o s.history
                  IN  [m EXCEPT !.pathSet = pathIds,
                                !.liveMetrics = [@ EXCEPT !.pathLength = pathLength,
                                                          !.totalCost = totalCost,
                                                          !.found = TRUE],
                                !.history = SubSeq(all, 1, IF Len(all) < 8 THEN Len(all) ELSE 8),
                                !.refDone = TRUE,
                                !.running = FALSE,
                                !.noPath = FALSE]
             ELSE LET all == neighbors(current.x, current.y, Rows(grid), Cols(grid))
                      open4 == LET passable(nb) == typeAt(nb) # "wall"
                               IN  SelectSeq(all, passable)
                      neigh == IF algo = "DFS" THEN Reverse(open4) ELSE open4
                  IN  updateLiveMetricsPartial(visExpand(neigh, 1, current, booked))

\* The interval fires: stepOnce()
tick ==
    /\ timer
    /\ Commit(stepOnce(Current))
    /\ now' = t1
    /\ UNCHANGED <<input, pending, pc, locals, result, earlier, algo, paused, pointer>>
    /\ steppingEffect

\* hardResetVisual(): what resetRunOnly clears, and running and paused
hardResetVisual(s) == [resetRunOnly(s) EXCEPT !.running = FALSE]

\* The handlers without their test of running.
editableAlways == TRUE

\* if (running) return: the handler edits only while no search is running.
editable == ~running

\* The Pause button (disabled unless running and not paused)
pause ==
    /\ running /\ ~paused
    /\ paused' = IF ~running THEN paused ELSE TRUE
    /\ Commit(Current)
    /\ now' = t1
    /\ UNCHANGED <<input, pending, pc, locals, result, earlier, algo, pointer>>
    /\ steppingEffect

\* The Stop button (disabled unless running)
stop ==
    /\ running
    /\ Commit([Current EXCEPT !.running = FALSE])
    /\ paused' = FALSE
    /\ now' = t1
    /\ UNCHANGED <<input, pending, pc, locals, result, earlier, algo, pointer>>
    /\ steppingEffect

\* The Step button: if (!running) { initRun(); setRunning(true);
\* setPaused(true) }; stepOnce().  The setters take effect together after the
\* handler, the last call of each winning.
step ==
    /\ LET begun == IF ~running
                    THEN [initRun(Current) EXCEPT !.running = TRUE]
                    ELSE Current
       IN  Commit(stepOnce(begun))
    /\ paused' = IF ~running THEN TRUE ELSE paused
    /\ now' = t1
    /\ UNCHANGED <<input, pending, pc, locals, result, earlier, algo, pointer>>
    /\ steppingEffect

\* The Reset Run button: onClick={resetRunOnly}, never disabled
resetRun ==
    /\ Commit(resetRunOnly(Current))
    /\ now' = t1
    /\ UNCHANGED <<input, pending, pc, locals, result, earlier, algo, paused, pointer>>
    /\ steppingEffect

\* const EDIT_MODES = ["Walls", "Weights", "Start", "Goal"]
EDIT_MODES == {"Walls", "Weights", "Start", "Goal"}

\* The Edit buttons, never disabled
setEditMode(m) ==
    /\ editMode' = m
    /\ Commit(Current)
    /\ now' = t1
    /\ UNCHANGED <<input, pending, pc, locals, result, earlier, algo, paused, mouseDown>>
    /\ steppingEffect

\* onMouseDown on the grid
handleMouseDown ==
    /\ mouseDown' = TRUE
    /\ Commit(Current)
    /\ now' = t1
    /\ UNCHANGED <<input, pending, pc, locals, result, earlier, algo, paused, editMode>>
    /\ steppingEffect

\* onMouseUp and onMouseLeave on the grid
handleMouseUp ==
    /\ mouseDown' = FALSE
    /\ Commit(Current)
    /\ now' = t1
    /\ UNCHANGED <<input, pending, pc, locals, result, earlier, algo, paused, editMode>>
    /\ steppingEffect

\* wall <-> empty for t = "wall", weight <-> empty for t = "weight"
toggleCell(prev, r, c, t) ==
    [i \in DOMAIN prev |->
        [j \in DOMAIN prev[i] |->
            IF i # r \/ j # c THEN prev[i][j]
            ELSE [prev[i][j] EXCEPT !.type = IF @ = t THEN "empty" ELSE t]]]

setCell(prev, r, c, t) ==
    [i \in DOMAIN prev |->
        [j \in DOMAIN prev[i] |->
            IF i = r /\ j = c THEN [prev[i][j] EXCEPT !.type = t] ELSE prev[i][j]]]

\* A click on the cell (r, c)
handleCellClick(r, c) ==
    /\ IF ~editable THEN UNCHANGED input
       ELSE IF editMode = "Walls"
       THEN grid' = toggleCell(grid, r, c, "wall") /\ UNCHANGED <<start, goal>>
       ELSE IF editMode = "Weights"
       THEN grid' = toggleCell(grid, r, c, "weight") /\ UNCHANGED <<start, goal>>
       ELSE IF editMode = "Start"
       THEN start' = Point(r, c) /\ UNCHANGED <<grid, goal>>
       ELSE goal' = Point(r, c) /\ UNCHANGED <<grid, start>>
    /\ Commit(Current)
    /\ now' = t1
    /\ UNCHANGED <<pending, pc, locals, result, earlier, algo, paused, pointer>>
    /\ steppingEffect

\* The pointer enters the cell (r, c)
handleCellEnter(r, c) ==
    /\ IF ~mouseDown \/ ~editable THEN UNCHANGED grid
       ELSE IF editMode = "Walls" THEN grid' = setCell(grid, r, c, "wall")
       ELSE IF editMode = "Weights" THEN grid' = setCell(grid, r, c, "weight")
       ELSE UNCHANGED grid
    /\ Commit(Current)
    /\ now' = t1
    /\ UNCHANGED <<start, goal, pending, pc, locals, result, earlier, algo, paused, pointer>>
    /\ steppingEffect

\* The Random button (disabled while running): every cell but the start and
\* the goal becomes a wall, a weight or empty as Math.random() falls.
randomObstacles ==
    /\ ~running
    /\ IF ~editable
       THEN UNCHANGED <<grid, paused>> /\ Commit(Current)
       ELSE /\ grid' \in {g \in Grids(Rows(grid), Cols(grid)) :
                            /\ g[start.x][start.y] = grid[start.x][start.y]
                            /\ g[goal.x][goal.y] = grid[goal.x][goal.y]}
            /\ Commit(hardResetVisual(Current))
            /\ paused' = FALSE
    /\ now' = t1
    /\ UNCHANGED <<start, goal, pending, pc, locals, result, earlier, algo, pointer>>
    /\ steppingEffect

\* The Clear button (disabled while running)
clearBoard ==
    /\ ~running
    /\ IF ~editable
       THEN UNCHANGED <<grid, paused>> /\ Commit(Current)
       ELSE /\ grid' = [i \in DOMAIN grid |->
                          [j \in DOMAIN grid[i] |-> [grid[i][j] EXCEPT !.type = "empty"]]]
            /\ Commit(hardResetVisual(Current))
            /\ paused' = FALSE
    /\ now' = t1
    /\ UNCHANGED <<start, goal, pending, pc, locals, result, earlier, algo, pointer>>
    /\ steppingEffect

Next ==
    \/ bfsCall
    \/ bfsLoop
    \/ dfsCall
    \/ dfsLoop
    \/ ucsCall
    \/ ucsLoop
    \/ greedyCall
    \/ greedyLoop
    \/ astarCall
    \/ astarLoop

Spec == Init /\ [][Next]_vars

\* Every function called twice in a row on the same input
RepeatSpec == InitWith(Twice) /\ [][Next]_vars

\* bfs, dfs and greedy called before and after the weights are taken off the grid
ReweighNext ==
    \/ bfsCall
    \/ bfsLoop
    \/ dfsCall
    \/ dfsLoop
    \/ greedyCall
    \/ greedyLoop
    \/ callerReweigh

ReweighSpec == InitWith(Reweighed) /\ [][ReweighNext]_vars

\* The caller calls bfs and then, in the component showing the same grid,
\* selects BFS and presses Run once
BfsVisInit == InitWith(<<"bfs">>) /\ ~Degenerate

BfsVisNext ==
    \/ bfsCall
    \/ bfsLoop
    \/ (pc = "done" /\ algo # "BFS" /\ setAlgo("BFS"))
    \/ (pc = "done" /\ algo = "BFS" /\ ~refDone /\ run)
    \/ (pc = "done" /\ tick)

BfsVisSpec == BfsVisInit /\ [][BfsVisNext]_vars

\* A 4 x 4 grid on which a cell of the route to the goal is found a second
\* time, by a cheaper way, while it waits in the frontier of a Greedy search
Reparented ==
    [grid |-> GridOf(4, 4, {<<0, 2>>, <<1, 2>>, <<2, 1>>, <<3, 3>>},
                           {<<0, 1>>, <<1, 1>>, <<1, 3>>, <<3, 1>>}),
     start |-> Point(0, 1), goal |-> Point(0, 3)]

\* const ALGOS = ["BFS", "DFS", "UCS", "Greedy", "A*"]: the mode of the
\* component that carries the name of the function a
modeOf(a) ==
    CASE a = "bfs" -> "BFS"
      [] a = "dfs" -> "DFS"
      [] a = "ucs" -> "UCS"
      [] a = "greedy" -> "Greedy"
      [] a = "astar" -> "A*"

\* One function is called on a grid; the component is then put in the mode of
\* that function and run on the same grid, start and goal until it is done.
EngineVisInit ==
    /\ \E a \in {"bfs", "dfs", "ucs", "greedy", "astar"} :
          \/ InitWith(<<a>>)
          \/ /\ grid = Reparented.grid
             /\ start = Reparented.start
             /\ goal = Reparented.goal
             /\ Fresh(<<a>>)
    /\ ~Degenerate

EngineVisNext ==
    \/ bfsCall
    \/ bfsLoop
    \/ dfsCall
    \/ dfsLoop
    \/ ucsCall
    \/ ucsLoop
    \/ greedyCall
    \/ greedyLoop
    \/ astarCall
    \/ astarLoop
    \/ \E a \in DOMAIN result : pc = "done" /\ algo # modeOf(a) /\ setAlgo(modeOf(a))
    \/ \E a \in DOMAIN result : pc = "done" /\ algo = modeOf(a) /\ ~refDone /\ run
    \/ (pc = "done" /\ tick)

EngineVisSpec == EngineVisInit /\ [][EngineVisNext]_vars

\* The visitor of the page: any button, any cell, and the interval, on a small
\* grid, for MaxUiClock events
UiInit ==
    /\ \E sh \in {s \in Shapes : 0 < s[1] * s[2] /\ s[1] * s[2] <= MaxUiCells} :
          /\ grid \in Grids(sh[1], sh[2])
          /\ start \in PointsOf(sh[1], sh[2])
          /\ goal \in PointsOf(sh[1], sh[2])
    /\ Fresh(<<>>)

UiNext ==
    /\ now < MaxUiClock
    /\ \/ run
       \/ pause
       \/ stop
       \/ step
       \/ resetRun
       \/ tick
       \/ \E a \in {"BFS", "DFS", "UCS", "Greedy", "A*"} : setAlgo(a)
       \/ \E m \in EDIT_MODES : setEditMode(m)
       \/ handleMouseDown
       \/ handleMouseUp
       \/ \E r \in DOMAIN grid : \E c \in DOMAIN grid[r] : handleCellClick(r, c)
       \/ \E r \in DOMAIN grid : \E c \in DOMAIN grid[r] : handleCellEnter(r, c)
       \/ randomObstacles
       \/ clearBoard

UiSpec == UiInit /\ [][UiNext]_vars

\* One search of the component watched from its first Run or Step to its end:
\* the mode is chosen, then Run, Pause, Step and the interval in any order
\* (no Stop, no Reset Run, no editing), for MaxRunClock events.
RunInit ==
    /\ \E sh \in {s \in Shapes : 0 < s[1] * s[2] /\ s[1] * s[2] <= MaxRunCells} :
          /\ grid \in Grids(sh[1], sh[2])
          /\ start \in PointsOf(sh[1], sh[2])
          /\ goal \in PointsOf(sh[1], sh[2])
    /\ Fresh(<<>>)

RunNext ==
    /\ now < MaxRunClock
    /\ \/ \E a \in {"BFS", "DFS", "UCS", "Greedy", "A*"} : now = 0 /\ setAlgo(a)
       \/ ((running \/ (refStartTime = 0 /\ ~refDone)) /\ run)
       \/ pause
       \/ ((running \/ (refStartTime = 0 /\ ~refDone)) /\ step)
       \/ tick

RunSpec == RunInit /\ [][RunNext]_vars

\* The five functions on the grids of Scenarios
ScenarioSpec == ScenarioInit /\ [][Next]_vars

\* The five functions on every small grid and on the grids spelled out
WideInit == Init \/ ScenarioInit

WideSpec == WideInit /\ [][Next]_vars

\* The five functions on every small grid and on the grids of six cells
CaseInit == Init \/ SixCellInit

CaseSpec == CaseInit /\ [][Next]_vars

---------------------------------------------------------------------------
(* What the claims measure the results against: the grid as a graph,       *)
(* computed without any of the search loops.                               *)

Cells == {Point(x, y) : x \in 0..(Rows(grid) - 1), y \in 0..(Cols(grid) - 1)}

Free == {p \in Cells : typeAt(p) # "wall"}

Adjacent(p, q) == manhattan(p.x, p.y, q.x, q.y) = 1

\* The free cells connected to the cells of S by 4-adjacent free steps.
RECURSIVE Closure(_)
Closure(S) ==
    LET N == S \cup {q \in Free : \E p \in S : Adjacent(p, q)}
    IN  IF N = S THEN S ELSE Closure(N)

Component == IF typeAt(start) = "wall" THEN {} ELSE Closure({start})

\* Above the cost of every path without a repeated cell.
Far == 5 * Cardinality(Cells) + 1

\* k rounds of relaxing every edge: the least cost of a walk of at most k
\* steps from start, where entering cell q costs cost[q].
RECURSIVE Relaxed(_, _, _)
Relaxed(d, cost, k) ==
    IF k = 0 THEN d
    ELSE Relaxed(EmptyMap @@
                 [q \in Free |->
                    LET via == {d[p] + cost[q] : p \in {r \in Free : Adjacent(r, q)}}
                        best == IF via = {} THEN Far
                                ELSE CHOOSE v \in via : \A w \in via : v <= w
                    IN  IF best < d[q] THEN best ELSE d[q]],
                 cost, k - 1)

FromStart(cost) ==
    Relaxed([q \in Free |-> IF q = start THEN 0 ELSE Far], cost, Cardinality(Free))

\* The least sum of entry costs (1 empty, 5 weight; the start is not entered).
MinCost == FromStart([q \in Free |-> IF typeAt(q) = "weight" THEN 5 ELSE 1])[goal]

\* The least number of steps.
MinSteps == FromStart([q \in Free |-> 1])[goal]

EndpointsFree == ~Degenerate /\ typeAt(start) # "wall" /\ typeAt(goal) # "wall"

Reachable == EndpointsFree /\ goal \in Component

Unreachable == EndpointsFree /\ goal \notin Component

AllReturned == pc = "done"

Returned == {Algorithms[i] : i \in 1..Len(Algorithms)} \cap DOMAIN result

\* The loops stay below the step cap: no loop action is ever held back by it.
StepCapNeverBinds == Len(visitedOrder) < StepCap - 1

---------------------------------------------------------------------------
(* The claims *)

\* C1 (completeness): when the goal is reachable from the start through free
\* cells, each of the five functions returns found = true with a non-empty
\* path whose first point is start and whose last point is goal.
C1_Completeness ==
    (AllReturned /\ Reachable) =>
        \A a \in Returned :
            LET r == result[a]
            IN  /\ r.found
                /\ Len(r.path) > 0
                /\ r.path[1] = start
                /\ r.path[Len(r.path)] = goal

\* A reachable goal behind a detour: a wall in the grid, the goal not next to
\* the start, and dfs and astar both returned a path.
C1_Witness ==
    /\ AllReturned /\ Reachable
    /\ \E p \in Cells : typeAt(p) = "wall"
    /\ manhattan(start.x, start.y, goal.x, goal.y) >= 2
    /\ result["dfs"].found /\ result["astar"].found
    /\ Len(result["dfs"].path) > 3

\* C2 (ucs optimality): whenever ucs returns found = true, its totalCost is
\* the least cost of a free path from start to goal.
C2_UcsOptimal ==
    (AllReturned /\ ~Degenerate /\ result["ucs"].found) =>
        result["ucs"].totalCost = MinCost

\* ucs found a path that is cheaper than the path with the fewest steps: a
\* weight cell was worth going around.
C2_Witness ==
    /\ AllReturned /\ Reachable
    /\ result["ucs"].found
    /\ result["ucs"].pathLength > MinSteps
    /\ result["ucs"].totalCost = MinCost

\* C3 (astar cost = ucs cost): with a reachable goal, astar and ucs return
\* the same totalCost, which is the least cost.
C3_AstarCostIsUcsCost ==
    (AllReturned /\ Reachable) =>
        /\ result["astar"].totalCost = result["ucs"].totalCost
        /\ result["astar"].totalCost = MinCost

\* astar reached the goal with fewer expansions than ucs and still at ucs's
\* cost, on a path that enters a weight cell, where greedy's path is dearer.
C3_Witness ==
    /\ AllReturned /\ Reachable
    /\ result["astar"].nodesExpanded < result["ucs"].nodesExpanded
    /\ result["astar"].totalCost > result["astar"].pathLength
    /\ result["astar"].totalCost = result["ucs"].totalCost
    /\ result["greedy"].totalCost > result["astar"].totalCost

\* C4 (astar expands no more than ucs): with a reachable goal, astar's
\* nodesExpanded is at most ucs's.
C4_AstarExpandsNoMore ==
    (AllReturned /\ Reachable) =>
        result["astar"].nodesExpanded <= result["ucs"].nodesExpanded

\* astar expanded strictly fewer cells than ucs on a grid with a weight cell.
C4_Witness ==
    /\ AllReturned /\ Reachable
    /\ \E p \in Free : typeAt(p) = "weight"
    /\ result["astar"].nodesExpanded < result["ucs"].nodesExpanded

\* C5 (wall precondition): on a grid with cells, if the start cell or the
\* goal cell is a wall, every function returns found = false, an empty path
\* and nodesExpanded = 0, also when start and goal are the same wall cell.
C5_WallPrecondition ==
    (~Degenerate /\ StartOrGoalWall) =>
        \A a \in Returned :
            /\ ~result[a].found
            /\ result[a].path = <<>>
            /\ result[a].nodesExpanded = 0

\* C6 (unreachability): with free start and goal and the goal not reachable,
\* every function returns found = false, path = [], pathLength = 0,
\* totalCost = 0 and nodesExpanded = the size of the start's component.
C6_Unreachable ==
    (AllReturned /\ Unreachable) =>
        \A a \in Returned :
            /\ ~result[a].found
            /\ result[a].path = <<>>
            /\ result[a].pathLength = 0
            /\ result[a].totalCost = 0
            /\ result[a].nodesExpanded = Cardinality(Component)

\* An unreachable goal with a start component of at least three cells, one of
\* them a weight cell, all five functions having returned.
C6_Witness ==
    /\ AllReturned /\ Unreachable
    /\ Cardinality(Component) >= 3
    /\ \E p \in Component : typeAt(p) = "weight"
    /\ result["astar"].nodesExpanded = Cardinality(Component)

\* C7 (bfs step-optimality): on a grid with no weight cell and a reachable
\* goal other than the start, bfs's pathLength is the least number of steps.
C7_BfsFewestSteps ==
    (/\ AllReturned /\ Reachable
     /\ start # goal
     /\ \A p \in Cells : typeAt(p) # "weight") =>
        result["bfs"].pathLength = MinSteps

\* bfs went around a wall on a grid without weights: the fewest steps are
\* more than the Manhattan distance.
C7_Witness ==
    /\ AllReturned /\ Reachable
    /\ start # goal
    /\ \A p \in Cells : typeAt(p) # "weight"
    /\ \E p \in Cells : typeAt(p) = "wall"
    /\ MinSteps > manhattan(start.x, start.y, goal.x, goal.y)
    /\ result["bfs"].pathLength = MinSteps

\* C8 (path contiguity): in every found = true result, consecutive points of
\* path are 4-adjacent and no point of path is a wall cell.
C8_PathContiguous ==
    \A a \in Returned :
        result[a].found =>
            LET path == result[a].path
            IN  /\ \A i \in 1..(Len(path) - 1) : Adjacent(path[i], path[i + 1])
                /\ \A i \in 1..Len(path) : typeAt(path[i]) # "wall"

\* C9 (metric consistency): every returned record has nodesExpanded =
\* len(visitedOrder), pathLength = max(0, len(path) - 1) and visitedPeak =
\* nodesExpanded.
C9_MetricsConsistent ==
    \A a \in Returned :
        LET r == result[a]
        IN  /\ r.nodesExpanded = Len(r.visitedOrder)
            /\ r.pathLength = Max(0, Len(r.path) - 1)
            /\ r.visitedPeak = r.nodesExpanded

\* The four kinds of return in one run: bfs's start = goal shortcut, and a
\* main loop return of astar; and (other runs) a wall return and a degenerate one.
C9_Witness ==
    /\ AllReturned /\ ~Degenerate
    /\ start = goal
    /\ result["bfs"].found /\ result["bfs"].nodesExpanded = 0
    /\ result["astar"].found /\ result["astar"].nodesExpanded = 1

\* The cells the running loop has not expanded yet.
Unexpanded == Cells \ {visitedOrder[i] : i \in 1..Len(visitedOrder)}

\* A natural number: the calls still to return, then the position in the
\* current call, then the cells its loop has not expanded.
Rank ==
    Len(pending) * (Cardinality(Cells) + 3) +
    (CASE pc = "call" -> Cardinality(Cells) + 2
       [] pc = "loop" -> Cardinality(Unexpanded) + 1
       [] OTHER -> 0)

\* Following the predecessors from cur comes to an id without one in at most n steps.
RECURSIVE ChainEnds(_, _, _)
ChainEnds(came, cur, n) ==
    IF cur \notin DOMAIN came THEN TRUE
    ELSE IF n = 0 THEN FALSE
    ELSE ChainEnds(came, came[cur], n - 1)

\* C10 (termination): every step of every call, and so every iteration of
\* each of the five loops, strictly lowers the natural number Rank and leaves
\* the loop able to go on (below the step cap): each loop ends (its frontier
\* empties or the goal is popped) after at most as many iterations as the
\* grid has cells, ucs and astar included, and every call returns; the
\* predecessors recorded never form a cycle, so the walk that builds the path
\* ends as well.
C10_Terminates ==
    [][/\ Rank' < Rank
       /\ Rank' >= 0
       /\ (pc' = "loop" =>
             /\ Len(visitedOrder') < StepCap
             /\ \A k \in DOMAIN cameFrom' :
                   ChainEnds(cameFrom', k, Cardinality(DOMAIN cameFrom')))]_vars

\* ucs and astar ended on an unreachable goal after re-writing a frontier
\* entry: some cell of the component was reached first by a dearer route.
C10_Witness ==
    /\ AllReturned /\ Unreachable
    /\ Cardinality(Component) >= 4
    /\ \E p \in Component : typeAt(p) = "weight"
    /\ ~result["ucs"].found /\ ~result["astar"].found
    /\ result["ucs"].visitedOrder # result["bfs"].visitedOrder

\* The fields of a record other than timeMs that a caller can compare.
SameButTime(r, s) ==
    /\ r.found = s.found
    /\ r.path = s.path
    /\ r.pathLength = s.pathLength
    /\ r.totalCost = s.totalCost
    /\ r.visitedOrder = s.visitedOrder
    /\ r.frontierPeak = s.frontierPeak
    /\ r.frontierSnapshots = s.frontierSnapshots

\* C11 (determinism): a function called a second time with the same grid,
\* start and goal returns the same found, path, pathLength, totalCost,
\* visitedOrder, frontierPeak and frontierSnapshots as the first time: what
\* the first call left behind has no effect on the second.
C11_Deterministic ==
    \A a \in DOMAIN earlier : SameButTime(earlier[a], result[a])

\* Every function has returned twice, the searches went through a loop with
\* several expansions, and the first call had left its locals behind.
C11_Witness ==
    /\ AllReturned
    /\ DOMAIN earlier = {"bfs", "dfs", "ucs", "greedy", "astar"}
    /\ earlier["bfs"].found /\ earlier["bfs"].nodesExpanded >= 4
    /\ ~(start = goal)
    /\ Cardinality(seen) >= 4
    /\ result["dfs"].visitedOrder # result["bfs"].visitedOrder

\* C12 (input grid never mutated): no step of any call changes the caller's
\* grid: every cell keeps its x, its y and its type.
C12_GridNeverMutated == [][grid' = grid]_vars

\* Every function has returned on a grid with a wall and a weight cell, one of
\* them with a path of several cells.
C12_Witness ==
    /\ AllReturned
    /\ \E p \in Cells : typeAt(p) = "wall"
    /\ \E p \in Cells : typeAt(p) = "weight"
    /\ result["dfs"].found /\ Len(result["dfs"].path) >= 4

C14_Degenerate ==
    Degenerate =>
        /\ pc # "loop"
        /\ \A a \in Returned :
              result[a] = [found |-> FALSE, path |-> <<>>, visitedOrder |-> <<>>,
                           nodesExpanded |-> 0, pathLength |-> 0, totalCost |-> 0,
                           frontierPeak |-> 0, visitedPeak |-> 0, timeMs |-> 0,
                           frontierSnapshots |-> <<>>]

\* Every function has returned on a grid of two empty rows, called with a
\* start that names no cell.
C14_Witness ==
    /\ AllReturned
    /\ Rows(grid) = 2 /\ Cols(grid) = 0
    /\ start = Point(1, 0) /\ goal = Point(0, 0)
    /\ result["astar"].timeMs = 0

\* The points of the frontier of the function under way, in frontier order.
FrontierPoints ==
    IF Head(pending) \in {"bfs", "dfs"} THEN open
    ELSE [i \in 1..Len(open) |-> open[i].p]

FrontierIds == [i \in 1..Len(open) |-> idOfPoint(FrontierPoints[i])]

\* The step in which a loop returns.
LoopReturns == pc = "loop" /\ pc' # "loop"

\* C15 (goal detection on pop): when a loop returns found = true, the goal is
\* the last point of visitedOrder and occurs nowhere before it, and the last
\* snapshot is the frontier as it was before the step with the goal taken out
\* and nothing put in: none of the goal's neighbours is enqueued or relaxed.
C15_GoalOnPop ==
    [][(LoopReturns /\ result'[Head(pending)].found) =>
          LET r == result'[Head(pending)]
              n == Len(r.visitedOrder)
          IN  /\ n >= 1
              /\ r.visitedOrder[n] = goal
              /\ \A i \in 1..(n - 1) : r.visitedOrder[i] # goal
              /\ Len(r.frontierSnapshots) = n
              /\ r.frontierSnapshots[n] =
                     SelectSeq(FrontierIds, LAMBDA id : id # idOfPoint(goal))
              /\ Len(r.frontierSnapshots[n]) = Len(open) - 1]_vars

\* ucs popped the goal while other cells were still in the frontier, and a
\* free neighbour of the goal was neither expanded nor in the frontier.
C15_Witness ==
    /\ "ucs" \in Returned
    /\ result["ucs"].found
    /\ LET r == result["ucs"]
           n == Len(r.visitedOrder)
       IN  /\ n >= 3
           /\ Len(r.frontierSnapshots[n]) >= 1
           /\ \E q \in Free :
                 /\ Adjacent(q, goal)
                 /\ \A i \in 1..n : r.visitedOrder[i] # q
                 /\ \A i \in 1..Len(r.frontierSnapshots[n]) :
                       r.frontierSnapshots[n][i] # idOfPoint(q)

\* C16 (snapshot alignment): in every returned record frontierSnapshots is as
\* long as visitedOrder; every expansion step adds one point and one snapshot,
\* the snapshot being the ids of the frontier as the step leaves it, in
\* frontier order, and no step alters an earlier snapshot or an earlier point.
C16_SnapshotAligned ==
    [][/\ \A a \in DOMAIN result' :
             Len(result'[a].frontierSnapshots) = Len(result'[a].visitedOrder)
       /\ (pc' = "loop" =>
             /\ Len(frontierSnapshots') = Len(visitedOrder')
             /\ (Len(visitedOrder') > 0 =>
                    frontierSnapshots'[Len(frontierSnapshots')] = FrontierIds'))
       /\ (pc = "loop" /\ pc' = "loop" =>
             /\ Len(visitedOrder') = Len(visitedOrder) + 1
             /\ SubSeq(visitedOrder', 1, Len(visitedOrder)) = visitedOrder
             /\ SubSeq(frontierSnapshots', 1, Len(frontierSnapshots)) = frontierSnapshots)
       /\ (LoopReturns =>
             LET r == result'[Head(pending)]
             IN  /\ SubSeq(r.visitedOrder, 1, Len(visitedOrder)) = visitedOrder
                 /\ SubSeq(r.frontierSnapshots, 1, Len(frontierSnapshots)) =
                        frontierSnapshots)]_vars

\* astar is in its loop after three expansions, with snapshots of different
\* lengths and two cells in the frontier.
C16_Witness ==
    /\ pc = "loop" /\ Head(pending) = "astar"
    /\ Len(frontierSnapshots) >= 3
    /\ Len(open) >= 2
    /\ Len(frontierSnapshots[1]) # Len(frontierSnapshots[3])

\* C17 (frontierPeak is a running maximum): inside a loop frontierPeak never
\* goes down and is at least 1, the length of the frontier and the length of
\* every snapshot taken; the frontierPeak a loop returns is no less than the
\* value it had, than 1, than the frontier, and than every snapshot returned.
C17_FrontierPeakRunningMax ==
    [][/\ (pc = "loop" /\ pc' = "loop" => frontierPeak' >= frontierPeak)
       /\ (pc' = "loop" =>
             /\ frontierPeak' >= 1
             /\ frontierPeak' >= Len(open')
             /\ \A i \in 1..Len(frontierSnapshots') :
                   frontierPeak' >= Len(frontierSnapshots'[i]))
       /\ (LoopReturns =>
             LET r == result'[Head(pending)]
             IN  /\ r.frontierPeak >= frontierPeak
                 /\ r.frontierPeak >= 1
                 /\ r.frontierPeak >= Len(open)
                 /\ \A i \in 1..Len(r.frontierSnapshots) :
                       r.frontierPeak >= Len(r.frontierSnapshots[i]))]_vars

\* dfs returned a peak of three reached in the middle of the run: the frontier
\* was shorter both at the first and at the last snapshot.
C17_Witness ==
    /\ "dfs" \in Returned
    /\ LET r == result["dfs"]
           n == Len(r.frontierSnapshots)
       IN  /\ n >= 3
           /\ r.frontierPeak >= 3
           /\ Len(r.frontierSnapshots[1]) < r.frontierPeak
           /\ Len(r.frontierSnapshots[n]) < r.frontierPeak
           /\ \E i \in 1..n : Len(r.frontierSnapshots[i]) = r.frontierPeak

\* C18 (walls never enqueued): no returned record of any function has a wall
\* cell in visitedOrder, in an entry of frontierSnapshots, or in path.
C18_NoWallAnywhere ==
    \A a \in Returned :
        LET r == result[a]
        IN  /\ \A i \in 1..Len(r.visitedOrder) : typeAt(r.visitedOrder[i]) # "wall"
            /\ \A i \in 1..Len(r.frontierSnapshots) :
                  \A j \in 1..Len(r.frontierSnapshots[i]) :
                      typeAt(pointOfId(r.frontierSnapshots[i][j])) # "wall"
            /\ \A i \in 1..Len(r.path) : typeAt(r.path[i]) # "wall"

\* The cost of entering the cells of a path after its first: 5 for every
\* weight cell among them, 1 for every other.
EnteringCost(path) ==
    5 * Cardinality({i \in 2..Len(path) : typeAt(path[i]) = "weight"}) +
    Cardinality({i \in 2..Len(path) : typeAt(path[i]) # "weight"})

\* C19 (post hoc cost of bfs, dfs, greedy): in every found = true record of
\* bfs, dfs and greedy, totalCost is the sum over the path's points after the
\* first of 5 for a weight cell and 1 otherwise; the start's type adds nothing.
C19_PostHocCost ==
    \A a \in Returned \cap {"bfs", "dfs", "greedy"} :
        result[a].found => result[a].totalCost = EnteringCost(result[a].path)

\* greedy found a path of several cells from a weight start over a weight
\* cell and an empty one.
C19_Witness ==
    /\ "greedy" \in Returned
    /\ result["greedy"].found
    /\ typeAt(start) = "weight"
    /\ LET path == result["greedy"].path
       IN  /\ Len(path) >= 3
           /\ \E i \in 2..Len(path) : typeAt(path[i]) = "weight"
           /\ \E i \in 2..Len(path) : typeAt(path[i]) = "empty"

\* C20 (weights do not guide bfs, dfs, greedy): called on a grid and on the
\* same grid with its weight cells made empty, each of bfs, dfs and greedy
\* returns the same found, visitedOrder, frontierSnapshots and path (two grids
\* with the same walls both agree with their common weightless grid).
C20_WeightsDoNotGuide ==
    \A a \in DOMAIN earlier :
        /\ earlier[a].found = result[a].found
        /\ earlier[a].visitedOrder = result[a].visitedOrder
        /\ earlier[a].frontierSnapshots = result[a].frontierSnapshots
        /\ earlier[a].path = result[a].path

\* The three have returned before and after the weights were taken off, and
\* the path greedy found cost more with the weights on.
C20_Witness ==
    /\ AllReturned
    /\ DOMAIN earlier = {"bfs", "dfs", "greedy"}
    /\ earlier["greedy"].found
    /\ Len(earlier["greedy"].path) >= 3
    /\ earlier["greedy"].totalCost > result["greedy"].totalCost
    /\ earlier["bfs"].totalCost > result["bfs"].totalCost

\* The record a function returned on the grid, start and goal of scenario sc.
OnScenario(sc) == grid = sc.grid /\ start = sc.start /\ goal = sc.goal

\* C22 (quick usage scenario): on the 5 x 8 grid, all empty but for a wall at
\* (1,3), with start (0,0) and goal (4,7), bfs returns found = true,
\* pathLength = 11 and totalCost = 11.
C22_QuickUsage ==
    (OnScenario(QuickUsage) /\ "bfs" \in Returned) =>
        /\ result["bfs"].found
        /\ result["bfs"].pathLength = 11
        /\ result["bfs"].totalCost = 11

\* bfs has returned on that grid after expanding every cell but the wall: the
\* goal, the far corner, is the last one it reaches.
C22_Witness ==
    /\ OnScenario(QuickUsage)
    /\ "bfs" \in Returned
    /\ typeAt(Point(1, 3)) = "wall"
    /\ result["bfs"].nodesExpanded = 39
    /\ Len(result["bfs"].path) = 12

\* C23 (wall row scenario): on the same grid with row 2 all wall except
\* (2,4), every function returns found = true with a path that contains
\* (2,4), and ucs and astar return the same totalCost.
C23_WallRow ==
    OnScenario(WallRow) =>
        /\ \A a \in Returned :
              /\ result[a].found
              /\ \E i \in 1..Len(result[a].path) : result[a].path[i] = Point(2, 4)
        /\ ({"ucs", "astar"} \subseteq Returned =>
              result["ucs"].totalCost = result["astar"].totalCost)

\* All five have returned on that grid; dfs came through the opening by a
\* longer path than ucs.
C23_Witness ==
    /\ OnScenario(WallRow)
    /\ AllReturned
    /\ \A y \in (0..7) \ {4} : typeAt(Point(2, y)) = "wall"
    /\ typeAt(Point(2, 4)) = "empty"
    /\ result["dfs"].pathLength > result["ucs"].pathLength
    /\ result["astar"].nodesExpanded < result["ucs"].nodesExpanded

\* The ids of the cells in the frontier of the function under way.
FrontierIdSet == {FrontierIds[i] : i \in 1..Len(open)}

\* The frontier q with the entry at index k taken out.
Without(q, k) == SubSeq(q, 1, k - 1) \o SubSeq(q, k + 1, Len(q))

\* C21 (greedy: first discovery wins): in every step of greedy's loop the
\* cells put in the frontier are cells never put there before, each with the
\* expanded cell as its predecessor; every predecessor already written and
\* every other frontier entry stays as it was, in the same order.
C21_GreedyFirstDiscovery ==
    [][(pc = "loop" /\ pc' = "loop" /\ Head(pending) = "greedy") =>
          LET cur == visitedOrder'[Len(visitedOrder')]
              k == CHOOSE i \in 1..Len(open) : open[i].p = cur
              rest == Without(open, k)
              added == SubSeq(open', Len(rest) + 1, Len(open'))
          IN  /\ SubSeq(open', 1, Len(rest)) = rest
              /\ seen \subseteq seen'
              /\ \A i \in 1..Len(added) :
                    /\ idOfPoint(added[i].p) \notin seen
                    /\ idOfPoint(added[i].p) \in seen'
                    /\ idOfPoint(added[i].p) \notin DOMAIN cameFrom
                    /\ cameFrom'[idOfPoint(added[i].p)] = idOfPoint(cur)
                    /\ \A j \in 1..Len(added) :
                          added[i].p = added[j].p => i = j
              /\ \A id \in DOMAIN cameFrom :
                    id \in DOMAIN cameFrom' /\ cameFrom'[id] = cameFrom[id]
              /\ DOMAIN cameFrom' =
                    DOMAIN cameFrom \cup {idOfPoint(added[i].p) : i \in 1..Len(added)}]_vars

\* The cost of the route the predecessors record from the start to the cell id.
RouteCost(id) ==
    LET ids == reconstructPath(cameFrom, id)
    IN  EnteringCost([i \in 1..Len(ids) |-> pointOfId(ids[i])])

\* greedy is in its loop with a cell in the frontier whose predecessor was
\* kept although a cell expanded later is a cheaper way into it.
C21_Witness ==
    /\ pc = "loop" /\ Head(pending) = "greedy"
    /\ \E i \in 1..Len(open) :
          \E j \in 1..Len(visitedOrder) :
              LET c == open[i].p
                  q == visitedOrder[j]
              IN  /\ Adjacent(q, c)
                  /\ idOfPoint(q) # cameFrom[idOfPoint(c)]
                  /\ RouteCost(idOfPoint(q)) < RouteCost(cameFrom[idOfPoint(c)])

\* The component has finished a BFS run that passed the safety checks of
\* initRun, after bfs returned on the same grid, start and goal.
BfsBothDone ==
    /\ pc = "done"
    /\ "bfs" \in DOMAIN result
    /\ algo = "BFS"
    /\ refDone
    /\ ~Degenerate
    /\ start # goal
    /\ ~StartOrGoalWall

\* C24: for a non-wall start and goal with start # goal, the bfs function and
\* the component stepping in BFS mode to completion agree on whether a path
\* was found, on the order of the expansions, on the path, on pathLength and
\* on totalCost (in the component the g of the goal node).
C24_BfsMatchesVisualizer ==
    BfsBothDone =>
        LET r == result["bfs"]
        IN  /\ liveMetrics.found = r.found
            /\ noPath = ~r.found
            /\ refExplored = idsOfPoints(r.visitedOrder)
            /\ liveMetrics.nodesExpanded = r.nodesExpanded
            /\ pathSet = idsOfPoints(r.path)
            /\ liveMetrics.pathLength = r.pathLength
            /\ liveMetrics.totalCost = r.totalCost

\* Both have found a path that enters a weight cell, after at least four
\* expansions.
C24_Witness ==
    /\ BfsBothDone
    /\ liveMetrics.found
    /\ result["bfs"].found
    /\ Len(refExplored) >= 4
    /\ liveMetrics.totalCost > liveMetrics.pathLength

\* No point occurs twice in the sequence of points ps.
NoRepeat(ps) == \A i, j \in 1..Len(ps) : ps[i] = ps[j] => i = j

\* C25 (no re-expansion): while a function is in its loop the frontier holds
\* no cell twice and no cell already expanded, no cell occurs twice in
\* visitedOrder, and the cells expanded are no more than the non-wall cells;
\* a step of ucs or astar never lowers the g recorded for an expanded cell;
\* a returned record has no cell twice in visitedOrder and nodesExpanded at
\* most the number of non-wall cells.
C25_NoReExpansion ==
    [][/\ pc = "loop" =>
            /\ NoRepeat(FrontierPoints)
            /\ \A i \in 1..Len(open) : \A j \in 1..Len(visitedOrder) :
                  FrontierPoints[i] # visitedOrder[j]
            /\ NoRepeat(visitedOrder)
            /\ Len(visitedOrder) <= Cardinality(Free)
       /\ (pc = "loop" /\ pc' = "loop" /\ Head(pending) \in {"ucs", "astar"}) =>
            \A i \in 1..Len(visitedOrder') :
                LET id == idOfPoint(visitedOrder'[i])
                IN  id \in DOMAIN gScore /\ ~(gScore'[id] < gScore[id])
       /\ result' # result =>
            LET r == result'[Head(pending)]
            IN  /\ NoRepeat(r.visitedOrder)
                /\ r.nodesExpanded = Len(r.visitedOrder)
                /\ r.nodesExpanded <= Cardinality(Free)]_vars

\* dfs is in its loop, the cell it expanded last has a non-wall neighbour
\* that was expanded before and is not its predecessor, and a cell waiting on
\* the stack is next to two expanded cells.
C25_Witness ==
    /\ pc = "loop" /\ Head(pending) = "dfs"
    /\ Len(visitedOrder) >= 3
    /\ LET cur == visitedOrder[Len(visitedOrder)]
       IN  \E j \in 1..(Len(visitedOrder) - 1) :
              /\ Adjacent(visitedOrder[j], cur)
              /\ cameFrom[idOfPoint(cur)] # idOfPoint(visitedOrder[j])
    /\ \E i \in 1..Len(open) :
          \E j, k \in 1..Len(visitedOrder) :
              /\ j # k
              /\ Adjacent(open[i], visitedOrder[j])
              /\ Adjacent(open[i], visitedOrder[k])

\* The key by which the function under way orders its frontier entry n.
KeyOf(n) ==
    IF Head(pending) = "ucs" THEN n.g
    ELSE IF Head(pending) = "greedy" THEN n.h
    ELSE n.f

\* The cell expanded by the step under way.
Popped ==
    IF pc' = "loop" THEN visitedOrder'[Len(visitedOrder')]
    ELSE LET vo == result'[Head(pending)].visitedOrder IN vo[Len(vo)]

\* C26 (selection policy): every step of the loop of ucs, greedy or astar
\* that finds the frontier non-empty takes out the entry whose key (g, h, f)
\* is least, and among the entries with the least key the one at the lowest
\* index; h is the Manhattan distance to the goal and f is g + h.
C26_SelectionPolicy ==
    [][(pc = "loop" /\ Head(pending) \in {"ucs", "greedy", "astar"} /\ Len(open) > 0) =>
          \E k \in 1..Len(open) :
              /\ open[k].p = Popped
              /\ \A i \in 1..Len(open) : KeyOf(open[k]) <= KeyOf(open[i])
              /\ \A i \in 1..(k - 1) : KeyOf(open[k]) < KeyOf(open[i])
              /\ Head(pending) = "greedy" =>
                    \A i \in 1..Len(open) :
                        open[i].h = manhattan(open[i].p.x, open[i].p.y, goal.x, goal.y)
              /\ Head(pending) = "astar" =>
                    \A i \in 1..Len(open) :
                        /\ open[i].h = manhattan(open[i].p.x, open[i].p.y, goal.x, goal.y)
                        /\ open[i].f = open[i].g + open[i].h
              /\ Head(pending) \in {"ucs", "astar"} =>
                    \A i \in 1..Len(open) : open[i].g = gScore[idOfPoint(open[i].p)]]_vars

\* The Manhattan distance from the cell with the given id to the goal.
DistOfId(id) == manhattan(pointOfId(id).x, pointOfId(id).y, goal.x, goal.y)

\* greedy has just expanded a cell that was not first in the frontier, while
\* a later entry of the frontier was as close to the goal as the cell taken.
C26_Witness ==
    /\ pc = "loop" /\ Head(pending) = "greedy"
    /\ Len(frontierSnapshots) >= 2
    /\ LET before == frontierSnapshots[Len(frontierSnapshots) - 1]
           cur == idOfPoint(visitedOrder[Len(visitedOrder)])
       IN  \E k \in 2..Len(before) :
              /\ before[k] = cur
              /\ \E j \in (k + 1)..Len(before) : DistOfId(before[j]) = DistOfId(cur)

\* C27 (strict relaxation in ucs and astar): in a step that expands cur, a
\* non-wall neighbour of cur gets a new g, cur as predecessor and a frontier
\* entry exactly when it has no g recorded or the g through cur is strictly
\* smaller than the one recorded; its entry is then replaced at the index it
\* had, or appended at the end if it had none.  For every other cell g, the
\* predecessor and the frontier entry stay as they were: a route of equal
\* cost changes nothing.
C27_StrictRelaxation ==
    [][(pc = "loop" /\ pc' = "loop" /\ Head(pending) \in {"ucs", "astar"}) =>
          LET cur == visitedOrder'[Len(visitedOrder')]
              curId == idOfPoint(cur)
              k == CHOOSE i \in 1..Len(open) : open[i].p = cur
              rest == Without(open, k)
              Via(q) == gScore[curId] + (IF typeAt(q) = "weight" THEN 5 ELSE 1)
              Better(q) ==
                  /\ q \in Free
                  /\ Adjacent(cur, q)
                  /\ (idOfPoint(q) \notin DOMAIN gScore \/ Via(q) < gScore[idOfPoint(q)])
              Waiting(q) == \E i \in 1..Len(rest) : rest[i].p = q
          IN  /\ Len(open') =
                    Len(rest) + Cardinality({q \in Free : Better(q) /\ ~Waiting(q)})
              /\ \A i \in 1..Len(rest) :
                    /\ open'[i].p = rest[i].p
                    /\ IF Better(rest[i].p)
                       THEN open'[i].g = Via(rest[i].p)
                       ELSE open'[i] = rest[i]
              /\ \A i \in (Len(rest) + 1)..Len(open') :
                    /\ Better(open'[i].p)
                    /\ ~Waiting(open'[i].p)
                    /\ open'[i].g = Via(open'[i].p)
              /\ \A q \in Free :
                    LET id == idOfPoint(q)
                    IN  IF Better(q)
                        THEN /\ gScore'[id] = Via(q)
                             /\ cameFrom'[id] = curId
                             /\ \E i \in 1..Len(open') : open'[i].p = q
                        ELSE /\ id \in DOMAIN gScore' <=> id \in DOMAIN gScore
                             /\ id \in DOMAIN gScore => gScore'[id] = gScore[id]
                             /\ id \in DOMAIN cameFrom' <=> id \in DOMAIN cameFrom
                             /\ id \in DOMAIN cameFrom => cameFrom'[id] = cameFrom[id]]_vars

\* astar has just expanded a cell and given a cell that was already waiting
\* in the frontier a new predecessor, at the index the cell had.
C27_Witness ==
    /\ pc = "loop" /\ Head(pending) = "astar"
    /\ Len(frontierSnapshots) >= 2
    /\ LET before == frontierSnapshots[Len(frontierSnapshots) - 1]
           cur == idOfPoint(visitedOrder[Len(visitedOrder)])
           k == CHOOSE i \in 1..Len(before) : before[i] = cur
           kept == Without(before, k)
       IN  \E i \in 1..Len(kept) :
              /\ idOfPoint(open[i].p) = kept[i]
              /\ cameFrom[kept[i]] = cur
              /\ Len(open) = Len(kept)

\* The four cells around p in the order up, down, left, right (some of them
\* may lie outside the grid).
UpDownLeftRight(p) ==
    <<Point(p.x - 1, p.y), Point(p.x + 1, p.y), Point(p.x, p.y - 1), Point(p.x, p.y + 1)>>

\* The number of the expansion that pushed the cell q (0 for the start): the
\* first snapshot in which q occurs.
PushTime(q) ==
    IF q = start THEN 0
    ELSE CHOOSE n \in 1..Len(frontierSnapshots) :
            /\ \E i \in 1..Len(frontierSnapshots[n]) : frontierSnapshots[n][i] = idOfPoint(q)
            /\ \A m \in 1..(n - 1) :
                  \A i \in 1..Len(frontierSnapshots[m]) : frontierSnapshots[m][i] # idOfPoint(q)

\* The non-wall neighbours of the cell expanded last that were in no frontier
\* before that expansion, in the order up, down, left, right.
UnseenAround ==
    LET last == visitedOrder[Len(visitedOrder)]
        unseen(q) ==
            /\ q \in Free
            /\ q # start
            /\ \A m \in 1..(Len(frontierSnapshots) - 1) :
                  \A i \in 1..Len(frontierSnapshots[m]) :
                      frontierSnapshots[m][i] # idOfPoint(q)
    IN  SelectSeq(UpDownLeftRight(last), unseen)

\* The place of the cell q in the order up, down, left, right around p.
PlaceAround(p, q) == CHOOSE i \in 1..4 : UpDownLeftRight(p)[i] = q

\* C28 (dfs expansion order): when dfs has expanded a cell that had a
\* non-wall neighbour not seen before, the cell it expands next is the first
\* such neighbour in the order up, down, left, right; when it had none, the
\* cell expanded next is the one pushed most recently among those still on
\* the stack (of the cells pushed by the latest expansion that has one left
\* there, the first in the order up, down, left, right).
C28_DfsOrder ==
    [][(pc = "loop" /\ Head(pending) = "dfs" /\ Len(visitedOrder) > 0 /\ Len(open) > 0) =>
          IF Len(UnseenAround) > 0
          THEN Popped = UnseenAround[1]
          ELSE /\ \E i \in 1..Len(open) : open[i] = Popped
               /\ \A i \in 1..Len(open) :
                     \/ PushTime(open[i]) < PushTime(Popped)
                     \/ /\ PushTime(open[i]) = PushTime(Popped)
                        /\ PlaceAround(visitedOrder[PushTime(Popped)], Popped)
                              <= PlaceAround(visitedOrder[PushTime(Popped)], open[i])]_vars

\* dfs has expanded a cell that pushed two cells or more, then one of them,
\* which had no non-wall neighbour not seen before, and is about to go back
\* to another of them.
C28_Witness ==
    /\ pc = "loop" /\ Head(pending) = "dfs"
    /\ Len(visitedOrder) >= 3
    /\ Len(open) > 0
    /\ Len(UnseenAround) = 0
    /\ PushTime(visitedOrder[Len(visitedOrder)]) = PushTime(open[Len(open)])
    /\ PushTime(open[Len(open)]) > 0

\* The least number of steps from the start to every non-wall cell, a weight
\* cell counting as one step like an empty one.
StepsFromStart == FromStart([q \in Free |-> 1])

\* C29 (bfs layers): the cell bfs expands is never nearer to the start, in
\* steps, than the cell it expanded before, whether or not the grid has
\* weight cells; the first cell expanded is the start; so in the visitedOrder
\* of every record bfs returns the step distance never decreases.
C29_BfsLayers ==
    [][(pc = "loop" /\ Head(pending) = "bfs" /\ Len(open) > 0) =>
          LET steps == StepsFromStart
          IN  /\ IF Len(visitedOrder) = 0
                 THEN Popped = start
                 ELSE steps[Popped] >= steps[visitedOrder[Len(visitedOrder)]]
              /\ pc' # "loop" =>
                    LET vo == result'["bfs"].visitedOrder
                    IN  \A i, j \in 1..Len(vo) :
                            i < j => steps[vo[i]] <= steps[vo[j]]]_vars

\* bfs has returned after expanding four cells or more, a weight cell among
\* them before the last, the last at least two steps from the start.
C29_Witness ==
    /\ "bfs" \in DOMAIN result
    /\ ~Degenerate
    /\ LET vo == result["bfs"].visitedOrder
       IN  /\ Len(vo) >= 4
           /\ \E i \in 1..(Len(vo) - 1) : typeAt(vo[i]) = "weight"
           /\ StepsFromStart[vo[Len(vo)]] >= 2

\* The ids met by following at most n predecessor links from cur.
RECURSIVE LinksFrom(_, _)
LinksFrom(cur, n) ==
    <<cur>> \o (IF cur \in DOMAIN cameFrom /\ n > 0
                THEN LinksFrom(cameFrom[cur], n - 1) ELSE <<>>)

\* The predecessors form a tree rooted at the start.
PredecessorTree ==
    LET idOfCell == [q \in Free |-> idOfPoint(q)]
        fuel == Cardinality(DOMAIN cameFrom)
    IN  /\ idOfCell[start] \notin DOMAIN cameFrom
        /\ DOMAIN cameFrom \subseteq {idOfCell[q] : q \in Free}
        /\ \A q \in Free :
              idOfCell[q] \in DOMAIN cameFrom =>
                  /\ \E i \in 1..Len(visitedOrder) :
                        /\ idOfCell[visitedOrder[i]] = cameFrom[idOfCell[q]]
                        /\ Adjacent(visitedOrder[i], q)
                  /\ LET links == LinksFrom(idOfCell[q], fuel)
                     IN  /\ links[Len(links)] = idOfCell[start]
                         /\ NoRepeat(links)

\* C30 (the predecessor map is a tree rooted at start): whenever a function
\* is in its loop, the start has no predecessor, every predecessor recorded
\* is a cell already expanded and 4-adjacent to its child, and the links from
\* any cell that has one lead to the start without meeting a cell twice; the
\* path of every record returned with found = true after an expansion (the
\* path reconstructPath built) goes from start to goal by 4-adjacent steps,
\* has no cell twice, and all its points are in visitedOrder.
C30_PredecessorTree ==
    /\ pc = "loop" => PredecessorTree
    /\ \A a \in DOMAIN result :
          (result[a].found /\ result[a].nodesExpanded > 0) =>
              LET r == result[a]
              IN  /\ Len(r.path) >= 1
                  /\ r.path[1] = start
                  /\ r.path[Len(r.path)] = goal
                  /\ NoRepeat(r.path)
                  /\ \A i \in 1..Len(r.path) :
                        \E j \in 1..Len(r.visitedOrder) : r.visitedOrder[j] = r.path[i]
                  /\ \A i \in 1..(Len(r.path) - 1) : Adjacent(r.path[i], r.path[i + 1])

\* dfs has returned a path of four cells or more after expanding cells that
\* are not on it.
C30_Witness ==
    /\ "dfs" \in DOMAIN result
    /\ result["dfs"].found
    /\ Len(result["dfs"].path) >= 4
    /\ result["dfs"].nodesExpanded > Len(result["dfs"].path)

\* The least cost of a walk from the non-wall cell n to every non-wall cell
\* (1 to enter an empty cell, 5 a weight cell; Far where there is no walk).
CostFrom(n) ==
    Relaxed([q \in Free |-> IF q = n THEN 0 ELSE Far],
            [q \in Free |-> IF typeAt(q) = "weight" THEN 5 ELSE 1],
            Cardinality(Free))

\* C31 (the heuristic is admissible and consistent): on the grid and goal
\* astar is about to be called with, the heuristic of a non-wall cell n is at
\* most the least cost from n to the goal, the heuristic of n is at most the
\* cost of entering a 4-adjacent non-wall cell m plus the heuristic of m, and
\* the heuristic of the goal is 0; every node astar keeps in its frontier
\* carries that heuristic.
C31_HeuristicAdmissibleConsistent ==
    /\ (pc = "call" /\ Head(pending) = "astar" /\ ~Degenerate) =>
          /\ hOf(goal) = 0
          /\ \A n \in Free :
                /\ goal \in Free => hOf(n) <= CostFrom(n)[goal]
                /\ \A m \in Free :
                      Adjacent(n, m) =>
                          hOf(n) <= (IF typeAt(m) = "weight" THEN 5 ELSE 1) + hOf(m)
    /\ (pc = "loop" /\ Head(pending) = "astar") =>
          \A i \in 1..Len(open) :
              /\ open[i].h = hOf(open[i].p)
              /\ open[i].h = Abs(open[i].p.x - goal.x) + Abs(open[i].p.y - goal.y)

\* astar is in its loop with a frontier cell from which the goal can be
\* reached, at a cost strictly above the cell's heuristic.
C31_Witness ==
    /\ pc = "loop" /\ Head(pending) = "astar"
    /\ \E i \in 1..Len(open) :
          /\ open[i].h > 0
          /\ open[i].h < CostFrom(open[i].p)[goal]
          /\ CostFrom(open[i].p)[goal] < Far

\* The least cost from the start to every non-wall cell.
CostFromStart == FromStart([q \in Free |-> IF typeAt(q) = "weight" THEN 5 ELSE 1])

\* C32 (monotone expansion keys): the cell ucs expands has a recorded g no
\* smaller than the g of the cell it expanded before, the cell astar expands
\* has g + h no smaller than the g + h of the cell it expanded before, and in
\* both the g recorded for the cell at the moment it is expanded is the least
\* cost from the start to it.
C32_MonotoneKeys ==
    [][(pc = "loop" /\ Head(pending) \in {"ucs", "astar"} /\ Len(open) > 0) =>
          LET cur == Popped
              g == gScore[idOfPoint(cur)]
              least == CostFromStart
          IN  /\ g = least[cur]
              /\ Len(visitedOrder) > 0 =>
                    LET prev == visitedOrder[Len(visitedOrder)]
                        gPrev == gScore[idOfPoint(prev)]
                    IN  IF Head(pending) = "ucs"
                        THEN gPrev <= g
                        ELSE gPrev + manhattan(prev.x, prev.y, goal.x, goal.y)
                                <= g + manhattan(cur.x, cur.y, goal.x, goal.y)]_vars

\* ucs has expanded four cells or more, the last at a larger g than the one
\* before, on a grid where it expanded a weight cell.
C32_Witness ==
    /\ pc = "loop" /\ Head(pending) = "ucs"
    /\ Len(visitedOrder) >= 4
    /\ gScore[idOfPoint(visitedOrder[Len(visitedOrder)])]
          > gScore[idOfPoint(visitedOrder[Len(visitedOrder) - 1])]
    /\ \E i \in 1..Len(visitedOrder) : typeAt(visitedOrder[i]) = "weight"

\* C33 (the cost of ucs and astar is the cost of the returned path): in every
\* found = true record of ucs and astar, totalCost is the sum over the points
\* of the path after the first of 5 for a weight cell and 1 otherwise, so the
\* type of the start cell adds nothing.
C33_CostMatchesPath ==
    \A a \in Returned \cap {"ucs", "astar"} :
        result[a].found =>
            /\ result[a].totalCost = EnteringCost(result[a].path)
            /\ result[a].path[1] = start

\* ucs and astar have both returned a path of three cells or more that starts
\* on a weight cell and enters another.
C33_Witness ==
    /\ {"ucs", "astar"} \subseteq Returned
    /\ result["ucs"].found /\ result["astar"].found
    /\ typeAt(start) = "weight"
    /\ Len(result["ucs"].path) >= 3
    /\ result["ucs"].totalCost >= Len(result["ucs"].path) + 3
    /\ result["astar"].totalCost >= Len(result["astar"].path) + 3

\* C34 (start = goal outside bfs): when the start is the goal and not a wall,
\* dfs, ucs, greedy and astar each return found = true with path = [start],
\* pathLength 0, totalCost 0, visitedOrder = [start], nodesExpanded 1,
\* frontierPeak 1 and one frontier snapshot, which is empty.
C34_StartIsGoal ==
    (~Degenerate /\ start = goal /\ typeAt(start) # "wall") =>
        \A a \in Returned \ {"bfs"} :
            /\ result[a].found
            /\ result[a].path = <<start>>
            /\ result[a].pathLength = 0
            /\ result[a].totalCost = 0
            /\ result[a].visitedOrder = <<start>>
            /\ result[a].nodesExpanded = 1
            /\ result[a].frontierPeak = 1
            /\ result[a].frontierSnapshots = << <<>> >>

\* The five functions have returned for a start that is the goal, on a weight
\* cell with a non-wall neighbour; bfs reports no expansion.
C34_Witness ==
    /\ AllReturned
    /\ ~Degenerate /\ start = goal /\ typeAt(start) = "weight"
    /\ \E q \in Free : Adjacent(start, q)
    /\ result["bfs"].nodesExpanded = 0
    /\ result["astar"].nodesExpanded = 1

\* The function a has returned and the component, in the mode of a, has run to
\* its end on the same grid, for a non-wall start and goal with start # goal.
BothDone(a) ==
    /\ pc = "done"
    /\ a \in DOMAIN result
    /\ algo = modeOf(a)
    /\ refDone
    /\ ~Degenerate
    /\ start # goal
    /\ ~StartOrGoalWall

\* C35 (engine and visualizer agree): for a non-wall start and goal with
\* start # goal, each of dfs, ucs, greedy and astar and the component stepping
\* in the mode of that name to completion agree on the order of the
\* expansions, on whether a path was found and on the path.
C35_EngineMatchesVisualizer ==
    \A a \in {"dfs", "ucs", "greedy", "astar"} :
        BothDone(a) =>
            /\ refExplored = idsOfPoints(result[a].visitedOrder)
            /\ liveMetrics.found = result[a].found
            /\ pathSet = idsOfPoints(result[a].path)

\* The part of C35 that the code keeps: the agreement in full for dfs, ucs and
\* astar, and for greedy on the order of the expansions and on found.
C35_AgreementKept ==
    \A a \in {"dfs", "ucs", "greedy", "astar"} :
        BothDone(a) =>
            /\ refExplored = idsOfPoints(result[a].visitedOrder)
            /\ liveMetrics.found = result[a].found
            /\ a # "greedy" => pathSet = idsOfPoints(result[a].path)

\* C36 ('No path found' is truthful): whatever the visitor does, a step that
\* turns noPath from false to true ends in a state where the start or the goal
\* is a wall or the goal cannot be reached from the start on the grid shown.
C36_NoPathTruthful ==
    [][(~noPath /\ noPath') => (StartOrGoalWall \/ Unreachable)']_vars

\* C37 (a finished search is never left running): once the search is done,
\* by popping the goal, by exhausting the frontier or by a safety check of
\* initRun, running is false.
C37_DoneNotRunning == refDone => ~running

\* C38 (no editing during a run): a step taken while running is true, be it a
\* click on a cell, the pointer entering a cell with the button held down,
\* Random, Clear or anything else, leaves the grid, the start and the goal as
\* they were.
C38_NoEditWhileRunning ==
    [][running => (grid' = grid /\ start' = start /\ goal' = goal)]_vars

\* The button is held down over the grid of a search begun one event ago
\* that is still to make its first step, and an event has passed since that
\* left the search, the mode and the button alone.
C38_Witness ==
    /\ running /\ ~paused /\ timer
    /\ mouseDown
    /\ editMode = "Walls"
    /\ refStartTime = 2
    /\ now = 3
    /\ refExplored = <<>>
    /\ Len(refFrontier) = 1
    /\ typeAt(goal) = "empty"

\* What a search has worked out so far, apart from the clock readings
SearchPart(s) ==
    <<s.refFrontier, s.refExplored, s.refCameFrom, s.refG, s.refH, s.refF,
      s.refDone, s.noPath, s.visited, s.frontierSet, s.pathSet,
      s.liveMetrics.found, s.liveMetrics.pathLength, s.liveMetrics.totalCost,
      s.liveMetrics.nodesExpanded, s.refFrontierPeak, s.refVisitedPeak>>

\* The search after k steps made one after the other
RECURSIVE stepped(_, _)
stepped(s, k) ==
    IF k = 0 THEN s
    ELSE CHOOSE r \in {stepped(x, k - 1) : x \in {stepOnce(s)}} : TRUE

\* The search shown is the uninterrupted one on this grid, at the step where
\* it has expanded as many cells, or one step further (the step that found
\* the frontier empty expands nothing).
OnUninterruptedRun ==
    \E here \in {SearchPart(Current)} :
        \E begun \in {initRun(Current)} :
            \E there \in {stepped(begun, Len(refExplored))} :
                \/ here = SearchPart(there)
                \/ here = SearchPart(stepOnce(there))

\* What the search has worked out after the step
SearchPartAfter ==
    <<refFrontier', refExplored', refCameFrom', refG', refH', refF',
      refDone', noPath', visited', frontierSet', pathSet',
      liveMetrics'.found, liveMetrics'.pathLength, liveMetrics'.totalCost,
      liveMetrics'.nodesExpanded, refFrontierPeak', refVisitedPeak'>>

\* C39 (pause and step preserve the search): within one search of the
\* component, however Pause, Run, Step and the interval interleave, a search
\* that has begun shows the uninterrupted search on this grid at one of its
\* steps, and every event leaves it there or takes it exactly one step
\* further (so the cells are expanded in the same order and the final found,
\* path and totalCost are those of the uninterrupted search); an event that
\* pauses or resumes a running search leaves the frontier, the explored set,
\* the predecessors and the scores as they were; and a search begins only
\* from the state initRun leaves.
C39_PauseStepPreserve ==
    [][\E here \in {SearchPart(Current)} :
         /\ refStartTime # 0 =>
                /\ OnUninterruptedRun
                /\ SearchPartAfter \in {here, SearchPart(stepOnce(Current))}
         /\ refStartTime = 0 =>
                SearchPartAfter \in {here, SearchPart(initRun(Current)),
                                     SearchPart(stepOnce(initRun(Current)))}
         /\ (running /\ paused' # paused) => SearchPartAfter = here]_vars

\* A search that was paused and resumed on its way has found the goal after
\* three expansions or more and shows a path that enters a weight cell.
C39_Witness ==
    /\ refDone /\ ~running /\ ~paused
    /\ liveMetrics.found
    /\ Len(refExplored) >= 3
    /\ liveMetrics.timeMs >= Len(refExplored) + 2
    /\ liveMetrics.totalCost > liveMetrics.pathLength

\* The cells of the grid whose ids stand in the path shown, the first apart
AfterTheFirst == {p \in Free : \E i \in 2..Len(pathSet) : pathSet[i] = idOfPoint(p)}

\* C40 (the cost reported is the cost of the path shown): once the component
\* has popped the goal, in any of its five modes, the totalCost it reports
\* (the g of the goal node popped) is the sum over the cells of the path
\* reconstructed from the predecessor map, the start apart, of 5 for a weight
\* cell and 1 for any other; the path begins at the start and ends at the goal.
C40_CostOfPathShown ==
    (refDone /\ liveMetrics.found) =>
        LET cells == AfterTheFirst
        IN  /\ liveMetrics.totalCost =
                   5 * Cardinality({p \in cells : typeAt(p) = "weight"}) +
                   Cardinality({p \in cells : typeAt(p) # "weight"})
            /\ Cardinality(cells) = Len(pathSet) - 1
            /\ pathSet[1] = idOfPoint(start)
            /\ pathSet[Len(pathSet)] = idOfPoint(goal)
            /\ liveMetrics.pathLength = Len(pathSet) - 1

\* The Greedy mode has popped the goal on the grid where a cell of the path
\* was given a cheaper predecessor while it waited in the frontier: the cost
\* reported is 18, where the function greedy returns a path of cost 22.
C40_Witness ==
    /\ refDone /\ liveMetrics.found
    /\ algo = "Greedy"
    /\ grid = Reparented.grid
    /\ liveMetrics.totalCost = 18
    /\ result["greedy"].totalCost = 22
    /\ liveMetrics.pathLength = 10

====
